---- MODULE Spec2Model ----
(***************************************************************************)
(* certica: a local certificate-authority workbench.                       *)
(*                                                                         *)
(* The module models the on-disk store of the CA manager and the           *)
(* certificate manager (ca/{ca}/{ca}.key.pem, ca/{ca}/{ca}.cert.pem,       *)
(* certs/{ca}/{cert}/{key,cert,csr}.pem), the template store               *)
(* (templates/{name}.json) and the common-name derivation of               *)
(* sign_certificate.  Every external tool call (openssl, chmod, rmtree)    *)
(* is a nondeterministic choice between success and failure.               *)
(*                                                                         *)
(* It also models the i18n module (active language, loaded catalogs, t),   *)
(* the system checker's overall result, one run of the process from its    *)
(* entry point to its exit code, the Linux side of the system certificate  *)
(* manager (distribution detection, password handling, install fallback    *)
(* chain, verification of an installation, removal chain), the prompts     *)
(* and manager calls of the interactive UI, and the path formatting of     *)
(* the command-line output.                                                *)
(*                                                                         *)
(* Abstractions: file modes are not tracked; the serial file that          *)
(* `openssl x509 -CAcreateserial` leaves beside the CA certificate is not  *)
(* tracked; a leaf file is tracked by existence only; of the sudo          *)
(* commands of an installation, chmod is not tracked; a run of the         *)
(* process records the order of its check, manager construction and        *)
(* operation, not what the operation does; the UI records which manager    *)
(* operation a flow invokes, not its effect on the store.                  *)
(***************************************************************************)
EXTENDS Integers, Sequences, FiniteSets, TLC

(***************************************************************************)
(* Bounds of the model.                                                    *)
(***************************************************************************)
\* abnormal terminations of the process (no handler runs) in one behaviour
MaxKills == 1
\* manager calls in one behaviour
MaxOps == 4
\* longest dns_names / ip_addresses list passed to sign_certificate
MaxNames == 2

CANames == {"a", "b"}
CertNames == {"n1", "n2"}
\* the private keys `openssl genrsa` may produce
KeyVals == {"k1", "k2"}

\* A file is the set of its contents: empty when the path does not exist.
Absent == {}
Exists(f) == f # Absent

VARIABLES
    ca,         \* ca[X]: the directory ca/X/ and its two files
    certs,      \* certs[C]: the directory certs/C/ and its certificate directories
    last,       \* the most recent manager call and how it ended
    kills,      \* abnormal terminations so far
    ops,        \* manager calls so far
    cnIn,       \* inputs of the common-name derivation
    cnOut,      \* the derived common name
    templates,  \* templates/: file name -> stored JSON document (a set, as files)
    tlast,      \* the most recent template manager call
    locales,    \* locales/: language code -> catalog stored in its file
    i18n,       \* the i18n module's globals: current language and loaded catalogs
    ilast,      \* the most recent i18n call
    check,      \* print_check_results: its argument, return value and printed lines
    cli,        \* one run of the process: arguments, position, events, exit code
    distro,     \* /etc/os-release and what SystemCertManager derives from it
    trust,      \* the trust-store directories that hold {ca_name}.crt
    slast,      \* the most recent _install_linux call
    verify,     \* one _verify_installation call: what it finds and what it returns
    rlast,      \* the most recent _remove_linux call
    ui,         \* the interactive UI: menu, flow, prompt and manager calls
    fmt         \* one path, the base directory and the path as formatted

storeVars == <<ca, certs, last, kills, ops>>
cnVars == <<cnIn, cnOut>>
tplVars == <<templates, tlast>>
i18nVars == <<locales, i18n, ilast>>
sysVars == <<distro, trust, slast, verify, rlast>>
extVars == <<i18nVars, check, cli, sysVars, ui, fmt>>
managerVars == <<storeVars, cnVars, tplVars>>
vars ==
    <<ca, certs, last, kills, ops, cnIn, cnOut, templates, tlast, locales, i18n, ilast,
      check, cli, distro, trust, slast, verify, rlast, ui, fmt>>

(***************************************************************************)
(* The store: directories and files.                                       *)
(***************************************************************************)
NoCaDir == [dir |-> FALSE, key |-> Absent, cert |-> Absent]
NoCertDir == [dir |-> FALSE, key |-> FALSE, cert |-> FALSE, csr |-> FALSE]
NoCertsDir == [dir |-> FALSE, sub |-> [N \in CertNames |-> NoCertDir]]

\* any(dir.iterdir()) for a certificate directory
CertDirHasEntries(d) == d.key \/ d.cert \/ d.csr
\* any(dir.iterdir()) for certs/C/
CertsDirHasEntries(s) == \E N \in CertNames : s.sub[N].dir
\* any(dir.iterdir()) for ca/X/
CaDirHasEntries(c) == Exists(c.key) \/ Exists(c.cert)

\* Files live in directories.
WellFormed ==
    /\ \A X \in CANames : CaDirHasEntries(ca[X]) => ca[X].dir
    /\ \A C \in CANames : CertsDirHasEntries(certs[C]) => certs[C].dir
    /\ \A C \in CANames, N \in CertNames :
          CertDirHasEntries(certs[C].sub[N]) => certs[C].sub[N].dir

NoCall ==
    [op |-> "none", ca |-> "", cert |-> "", ret |-> "", step |-> "",
     err |-> "", raised |-> "", cmds |-> <<>>,
     pre |-> [dir |-> FALSE, key |-> Absent, cert |-> Absent, n |-> 0],
     had |-> [key |-> FALSE, cert |-> FALSE]]

(***************************************************************************)
(* CAManager: the read operations.  An optional result is a set with at    *)
(* most one element; a list of records is the set of the names it holds    *)
(* (the paths in a record are functions of the names).                     *)
(***************************************************************************)
list_cas_KeyOnly ==
    {X \in {Y \in CANames : ca[Y].dir} : Exists(ca[X].key)}

list_cas ==
    {X \in {Y \in CANames : ca[Y].dir} : Exists(ca[X].key) /\ Exists(ca[X].cert)}

get_ca(X) ==
    IF Exists(ca[X].key) /\ Exists(ca[X].cert) THEN {X} ELSE {}

get_certs_by_ca(C) ==
    IF ~certs[C].dir
    THEN {}
    ELSE {N \in {M \in CertNames : certs[C].sub[M].dir} :
             certs[C].sub[N].key /\ certs[C].sub[N].cert}

list_certificates ==
    {e \in {f \in CANames \X CertNames : certs[f[1]].dir /\ certs[f[1]].sub[f[2]].dir} :
        certs[e[1]].sub[e[2]].key /\ certs[e[1]].sub[e[2]].cert}

\* what a call records about the store it starts from: ca/X/ and the number
\* of certificates of X, or the two files of a certificate
PreOfCa(X) ==
    [dir |-> ca[X].dir, key |-> ca[X].key, cert |-> ca[X].cert,
     n |-> Cardinality(get_certs_by_ca(X))]

PreOfCert(C, N) == [key |-> certs[C].sub[N].key, cert |-> certs[C].sub[N].cert]

(***************************************************************************)
(* How a multi-step operation can end.  kind "ok": every step succeeds.    *)
(* kind "fail": `step` raises `err` (an exception or a KeyboardInterrupt)  *)
(* and has written no output file.  kind "kill": the process is terminated *)
(* after `step` and runs no handler.  The two chmod calls are one step.    *)
(***************************************************************************)
ToolErrors == {"CalledProcessError", "KeyboardInterrupt"}
ChmodErrors == {"PermissionError", "KeyboardInterrupt"}

Outcome(kind, step, err) == [kind |-> kind, step |-> step, err |-> err]

OkOutcome == Outcome("ok", "", "")

CaOutcomes ==
    {OkOutcome}
    \cup {Outcome("fail", s, e) : s \in {"genrsa", "req"}, e \in ToolErrors}
    \cup {Outcome("fail", "chmod", e) : e \in ChmodErrors}
    \cup {Outcome("kill", s, "") : s \in {"genrsa", "cleanup"}}

(***************************************************************************)
(* CAManager.create_root_ca                                                *)
(***************************************************************************)
CaMkdir(c) == [c EXCEPT !.dir = TRUE]

CaAlreadyExists_NoCheck(c) == FALSE

CaAlreadyExists(c) == Exists(c.key) \/ Exists(c.cert)

CaGenKey(c, k) == [c EXCEPT !.key = {k}]

\* the certificate is made from the key file
CaGenCert(c) == [c EXCEPT !.cert = c.key]

CaCleanup_KeepCert(c) ==
    LET c1 == IF Exists(c.key) THEN [c EXCEPT !.key = Absent] ELSE c
    IN  IF c1.dir /\ ~CaDirHasEntries(c1) THEN [c1 EXCEPT !.dir = FALSE] ELSE c1

CaCleanup(c) ==
    LET c1 == IF Exists(c.key) THEN [c EXCEPT !.key = Absent] ELSE c
        c2 == IF Exists(c1.cert) THEN [c1 EXCEPT !.cert = Absent] ELSE c1
    IN  IF c2.dir /\ ~CaDirHasEntries(c2) THEN [c2 EXCEPT !.dir = FALSE] ELSE c2

\* the directory when `out.step` raises
CaAtFailure(c0, k, out) ==
    CASE out.step = "genrsa" -> c0
      [] out.step = "req" -> CaGenKey(c0, k)
      [] OTHER -> CaGenCert(CaGenKey(c0, k))

\* the directory when the process is terminated: after the key generation, or
\* inside the except clause of a failed chmod, between the two unlinks
CaAtKill(c0, k, out) ==
    IF out.step = "genrsa"
    THEN CaGenKey(c0, k)
    ELSE [CaGenCert(CaGenKey(c0, k)) EXCEPT !.key = Absent]

CaCmds(out) ==
    IF out.kind # "ok" /\ out.step = "genrsa" THEN <<"genrsa">> ELSE <<"genrsa", "req">>

create_root_ca(X, k, out) ==
    LET c0 == CaMkdir(ca[X])
        call == [NoCall EXCEPT !.op = "create_root_ca", !.ca = X, !.pre = PreOfCa(X)]
    IN  /\ ops < MaxOps
        /\ IF CaAlreadyExists(c0)
           THEN /\ ca' = [ca EXCEPT ![X] = c0]
                /\ last' = [call EXCEPT !.ret = "raise", !.raised = "FileExistsError"]
           ELSE CASE out.kind = "ok" ->
                      /\ ca' = [ca EXCEPT ![X] = CaGenCert(CaGenKey(c0, k))]
                      /\ last' = [call EXCEPT !.ret = "ok", !.cmds = CaCmds(out)]
                  [] out.kind = "fail" ->
                      /\ ca' = [ca EXCEPT ![X] = CaCleanup(CaAtFailure(c0, k, out))]
                      /\ last' = [call EXCEPT !.ret = "raise", !.step = out.step,
                                              !.err = out.err, !.raised = out.err,
                                              !.cmds = CaCmds(out)]
                  [] OTHER ->
                      /\ ca' = [ca EXCEPT ![X] = CaAtKill(c0, k, out)]
                      /\ last' = [call EXCEPT !.ret = "killed", !.step = out.step,
                                              !.cmds = CaCmds(out)]
        /\ out.kind = "kill" => kills < MaxKills
        /\ kills' = IF out.kind = "kill" /\ ~CaAlreadyExists(c0) THEN kills + 1 ELSE kills
        /\ ops' = ops + 1
        /\ UNCHANGED <<certs, cnVars, tplVars, extVars>>

(***************************************************************************)
(* CAManager.delete_ca: rmtree of ca/X/, then of certs/X/; either may      *)
(* raise, and any exception makes the call return False.                   *)
(***************************************************************************)
DeleteOutcomes == {"ok", "fail_ca", "fail_certs"}

RmtreeCerts_Skip(s) == s

\* shutil.rmtree(ca_certs_dir)
RmtreeCerts(s) == NoCertsDir

delete_ca(X, out) ==
    LET call == [NoCall EXCEPT !.op = "delete_ca", !.ca = X, !.pre = PreOfCa(X)]
    IN  /\ ops < MaxOps
        /\ out = "fail_certs" => ca[X].dir /\ certs[X].dir
        /\ IF ~ca[X].dir
           THEN /\ last' = [call EXCEPT !.ret = "false"]
                /\ UNCHANGED <<ca, certs>>
           ELSE CASE out = "ok" ->
                      /\ ca' = [ca EXCEPT ![X] = NoCaDir]
                      /\ certs' = IF certs[X].dir
                                  THEN [certs EXCEPT ![X] = RmtreeCerts(certs[X])]
                                  ELSE certs
                      /\ last' = [call EXCEPT !.ret = "true"]
                  [] out = "fail_ca" ->
                      /\ last' = [call EXCEPT !.ret = "false"]
                      /\ UNCHANGED <<ca, certs>>
                  [] OTHER ->
                      /\ ca' = [ca EXCEPT ![X] = NoCaDir]
                      /\ last' = [call EXCEPT !.ret = "false"]
                      /\ UNCHANGED certs
        /\ ops' = ops + 1
        /\ UNCHANGED <<kills, cnVars, tplVars, extVars>>

(***************************************************************************)
(* CertManager.sign_certificate: the common name written to the request    *)
(* configuration.  A list is a sequence; "" is the empty string.           *)
(***************************************************************************)
CommonName_IpFirst(common_name, dns_names, ip_addresses, cert_name) ==
    IF common_name # ""
    THEN common_name
    ELSE IF ip_addresses # <<>>
         THEN ip_addresses[1]
         ELSE IF dns_names # <<>>
              THEN dns_names[1]
              ELSE cert_name

CommonName(common_name, dns_names, ip_addresses, cert_name) ==
    IF common_name # ""
    THEN common_name
    ELSE IF dns_names # <<>>
         THEN dns_names[1]
         ELSE IF ip_addresses # <<>>
              THEN ip_addresses[1]
              ELSE cert_name

(***************************************************************************)
(* CertManager.sign_certificate: the files.  `s` is certs/{ca_name}/.      *)
(***************************************************************************)
SignOutcomes ==
    {OkOutcome}
    \cup {Outcome("fail", s, e) : s \in {"genrsa", "req", "x509"}, e \in ToolErrors}
    \cup {Outcome("fail", "chmod", e) : e \in ChmodErrors}
    \cup {Outcome("kill", s, "") : s \in {"genrsa", "req"}}

CertMkdir(s, N) == [s EXCEPT !.dir = TRUE, !.sub[N].dir = TRUE]

GenKey(s, N) == [s EXCEPT !.sub[N].key = TRUE]

GenCsr(s, N) == [s EXCEPT !.sub[N].csr = TRUE]

SignCsr(s, N) == [s EXCEPT !.sub[N].cert = TRUE]

UnlinkCsr(s, N) == [s EXCEPT !.sub[N].csr = FALSE]

\* csr_path is assigned between the key generation and the request generation
CsrPathBound(out) == out.step # "genrsa"

\* the except clause: the files, then the two directories; when csr_path is
\* unbound its use raises UnboundLocalError and the rest is skipped
SignCleanup(s, N, bound) ==
    LET s1 == IF s.sub[N].key THEN [s EXCEPT !.sub[N].key = FALSE] ELSE s
        s2 == IF s1.sub[N].cert THEN [s1 EXCEPT !.sub[N].cert = FALSE] ELSE s1
        s3 == IF s2.sub[N].csr THEN UnlinkCsr(s2, N) ELSE s2
        s4 == IF s3.sub[N].dir /\ ~CertDirHasEntries(s3.sub[N])
              THEN [s3 EXCEPT !.sub[N].dir = FALSE]
              ELSE s3
        s5 == IF s4.dir /\ ~CertsDirHasEntries(s4) THEN [s4 EXCEPT !.dir = FALSE] ELSE s4
    IN  IF bound
        THEN [fs |-> s5, raised |-> ""]
        ELSE [fs |-> s2, raised |-> "UnboundLocalError"]

\* certs/{ca_name}/ when `out.step` raises
SignAtFailure(s0, N, out) ==
    CASE out.step = "genrsa" -> s0
      [] out.step = "req" -> GenKey(s0, N)
      [] out.step = "x509" -> GenCsr(GenKey(s0, N), N)
      [] OTHER -> SignCsr(GenCsr(GenKey(s0, N), N), N)

\* certs/{ca_name}/ when the process is terminated after `out.step`
SignAtKill(s0, N, out) ==
    IF out.step = "genrsa" THEN GenKey(s0, N) ELSE GenCsr(GenKey(s0, N), N)

SignCmds(out) ==
    CASE out.kind # "ok" /\ out.step = "genrsa" -> <<"genrsa">>
      [] out.kind # "ok" /\ out.step = "req" -> <<"genrsa", "req">>
      [] OTHER -> <<"genrsa", "req", "x509">>

sign_certificate(C, N, out) ==
    LET s0 == CertMkdir(certs[C], N)
        call == [NoCall EXCEPT !.op = "sign_certificate", !.ca = C, !.cert = N,
                               !.had = PreOfCert(C, N)]
        cleaned == SignCleanup(SignAtFailure(s0, N, out), N, CsrPathBound(out))
    IN  /\ ops < MaxOps
        /\ CASE out.kind = "ok" ->
                 /\ certs' = [certs EXCEPT
                                 ![C] = UnlinkCsr(SignCsr(GenCsr(GenKey(s0, N), N), N), N)]
                 /\ last' = [call EXCEPT !.ret = "ok", !.cmds = SignCmds(out)]
             [] out.kind = "fail" ->
                 /\ certs' = [certs EXCEPT ![C] = cleaned.fs]
                 /\ last' = [call EXCEPT
                                !.ret = "raise", !.step = out.step, !.err = out.err,
                                !.raised = IF cleaned.raised = ""
                                           THEN out.err
                                           ELSE cleaned.raised,
                                !.cmds = SignCmds(out)]
             [] OTHER ->
                 /\ certs' = [certs EXCEPT ![C] = SignAtKill(s0, N, out)]
                 /\ last' = [call EXCEPT !.ret = "killed", !.step = out.step,
                                         !.cmds = SignCmds(out)]
        /\ out.kind = "kill" => kills < MaxKills
        /\ kills' = IF out.kind = "kill" THEN kills + 1 ELSE kills
        /\ ops' = ops + 1
        /\ UNCHANGED <<ca, cnVars, tplVars, extVars>>

(***************************************************************************)
(* CertManager.delete_certificate                                          *)
(***************************************************************************)
delete_certificate(C, N, rmtreeOk) ==
    LET call == [NoCall EXCEPT !.op = "delete_certificate", !.ca = C, !.cert = N,
                               !.had = PreOfCert(C, N)]
    IN  /\ ops < MaxOps
        /\ IF ~certs[C].sub[N].dir
           THEN /\ last' = [call EXCEPT !.ret = "false"]
                /\ UNCHANGED certs
           ELSE IF rmtreeOk
                THEN /\ certs' = [certs EXCEPT ![C].sub[N] = NoCertDir]
                     /\ last' = [call EXCEPT !.ret = "true"]
                ELSE /\ last' = [call EXCEPT !.ret = "false"]
                     /\ UNCHANGED certs
        /\ ops' = ops + 1
        /\ UNCHANGED <<ca, kills, cnVars, tplVars, extVars>>

(***************************************************************************)
(* TemplateManager: templates/ holds one JSON document per file.           *)
(***************************************************************************)
TemplateNames == {"default", "default.json", "web", ""}

\* templates_dir / f"{template_name}.json"
TemplatePath(name) == name \o ".json"

TemplateFiles == {TemplatePath(n) : n \in TemplateNames}

\* Path.stem of a file of templates/ matched by "*.json": the name without its
\* last suffix, where a dot that begins the name does not begin a suffix
Stem(f) ==
    LET base == CHOOSE n \in TemplateNames : n \o ".json" = f
    IN  IF base = "" THEN f ELSE base

Bundle(org, country, state, city, days, bits) ==
    [organization |-> org, country |-> country, state |-> state, city |-> city,
     default_validity_days |-> days, default_key_size |-> bits]

\* the documents create_template is called with
Bundles ==
    {Bundle(o, c, "Beijing", "Beijing", d, 2048) :
        o \in {"Development", "Acme"}, c \in {"CN"}, d \in {365, 30}}

NoTemplateCall ==
    [op |-> "none", name |-> {}, ret |-> "", doc |-> {}, names |-> {}, pre |-> {}]

StoredFiles == {f \in TemplateFiles : Exists(templates[f])}

TemplateCall(op, arg) ==
    [NoTemplateCall EXCEPT !.op = op, !.name = arg, !.pre = StoredFiles]

create_template(name, doc) ==
    /\ templates' = [templates EXCEPT ![TemplatePath(name)] = {doc}]
    /\ tlast' = [TemplateCall("create_template", {name}) EXCEPT
                    !.ret = TemplatePath(name), !.doc = {doc}]
    /\ UNCHANGED <<storeVars, cnVars, extVars>>

\* the name load_template uses when it is called with None
DefaultTemplate == "default.json"

HardCodedDefaults_Days30 == Bundle("Development", "CN", "Beijing", "Beijing", 30, 2048)

HardCodedDefaults == Bundle("Development", "CN", "Beijing", "Beijing", 365, 2048)

\* `arg` is the optional template_name: {} is None
load_template(arg) ==
    LET template_name == IF arg = {} THEN DefaultTemplate ELSE CHOOSE n \in arg : TRUE
        template_path == TemplatePath(template_name)
    IN  /\ tlast' = [TemplateCall("load_template", arg) EXCEPT
                        !.ret = "ok",
                        !.doc = IF template_path \notin TemplateFiles
                                   \/ ~Exists(templates[template_path])
                                THEN {HardCodedDefaults}
                                ELSE templates[template_path]]
        /\ UNCHANGED <<templates, storeVars, cnVars, extVars>>

list_templates ==
    /\ tlast' = [TemplateCall("list_templates", {}) EXCEPT
                    !.ret = "ok", !.names = {Stem(f) : f \in StoredFiles}]
    /\ UNCHANGED <<templates, storeVars, cnVars, extVars>>

delete_template(name) ==
    /\ IF Exists(templates[TemplatePath(name)])
       THEN /\ templates' = [templates EXCEPT ![TemplatePath(name)] = Absent]
            /\ tlast' = [TemplateCall("delete_template", {name}) EXCEPT !.ret = "true"]
       ELSE /\ tlast' = [TemplateCall("delete_template", {name}) EXCEPT !.ret = "false"]
            /\ UNCHANGED templates
    /\ UNCHANGED <<storeVars, cnVars, extVars>>

(***************************************************************************)
(* Internationalization: the process-wide language and its catalogs.       *)
(* A string is recorded with the replacement fields str.format finds in    *)
(* it: `fields` are the named fields, `valid` is FALSE for a string whose  *)
(* braces str.format rejects.  A language code is a sequence of            *)
(* characters.                                                             *)
(***************************************************************************)
Chars(a, b) == <<a, b>>

SUPPORTED_LANGUAGES ==
    {Chars("e", "n"), Chars("z", "h"), Chars("f", "r"),
     Chars("r", "u"), Chars("j", "a"), Chars("k", "o")}

DEFAULT_LANGUAGE == Chars("e", "n")

\* the codes set_language is called with
LangArgs ==
    {<<"e", "n">>, <<"E", "N">>, <<"z", "h", "-", "C", "N">>, <<"Z", "H">>,
     <<"f", "r", "-", "F", "R">>, <<"r", "u">>, <<"j", "a">>, <<"k", "o">>,
     <<"d", "e">>, <<"z", "h", "_", "C", "N">>, <<"-", "e", "n">>, <<>>}

UpperCase == <<"C", "E", "F", "H", "N", "R", "Z">>
LowerCase == <<"c", "e", "f", "h", "n", "r", "z">>

\* str.lower
Lower(s) ==
    [i \in 1 .. Len(s) |->
        IF \E j \in 1 .. Len(UpperCase) : UpperCase[j] = s[i]
        THEN LowerCase[CHOOSE j \in 1 .. Len(UpperCase) : UpperCase[j] = s[i]]
        ELSE s[i]]

\* str.split(sep)[0]
SplitFirst(s, sep) ==
    LET at == {i \in 1 .. Len(s) : s[i] = sep}
    IN  IF at = {} THEN s
        ELSE SubSeq(s, 1, (CHOOSE i \in at : \A j \in at : i <= j) - 1)

NormalizeLang_NoLower(lang) == SplitFirst(lang, "-")

\* lang.lower().split("-")[0]
NormalizeLang(lang) == SplitFirst(Lower(lang), "-")

Str(text, fields, valid) == [text |-> text, fields |-> fields, valid |-> valid]

\* the keys t is called with
Keys ==
    {Str("ui.menu.title", {}, TRUE), Str("key.with.{placeholder}", {"placeholder"}, TRUE),
     Str("key.with.{invalid", {}, FALSE)}

\* dict.get(key) when the catalog has no such key
NoEntry == {}

\* what a catalog holds for a key
Entries ==
    {{Str("", {}, TRUE)}, {Str("Title", {}, TRUE)},
     {Str("Hello {name}", {"name"}, TRUE)}, {Str("Hello {name", {}, FALSE)}}

\* a catalog file holding a JSON object: every key it holds, with the same
\* kind of entry
CatalogOf(e) == [mapping |-> TRUE, entries |-> [k \in Keys |-> e]]

\* a catalog file holding JSON that is not an object, such as []
NotAMapping == [mapping |-> FALSE, entries |-> [k \in Keys |-> NoEntry]]

\* the catalog of a missing or unparsable file
EmptyCatalog == CatalogOf(NoEntry)

\* a language whose catalog was never loaded
NotLoaded == {}

\* the named arguments t is called with
NoArgs == <<>>
Kwargs ==
    {NoArgs, [n \in {"name"} |-> "v"], [n \in {"placeholder"} |-> "v"],
     [n \in {"invalid_arg"} |-> "v"]}

\* _load_translations(lang): what json.load gives for the file, {} when it
\* is missing or cannot be parsed
LoadTranslations(lang) == {locales[lang]}

NoI18nCall ==
    [op |-> "none", lang |-> <<>>, ret |-> "", key |-> {}, kwargs |-> NoArgs, out |-> {}]

set_language(lang) ==
    LET code == NormalizeLang(lang)
        call == [NoI18nCall EXCEPT !.op = "set_language", !.lang = lang]
    IN  /\ IF code \notin SUPPORTED_LANGUAGES
           THEN /\ ilast' = [call EXCEPT !.ret = "false"]
                /\ UNCHANGED i18n
           ELSE /\ i18n' =
                    [current_language |-> code,
                     translations |->
                        [l \in SUPPORTED_LANGUAGES |->
                            IF l = code \/ (code # DEFAULT_LANGUAGE /\ l = DEFAULT_LANGUAGE)
                            THEN LoadTranslations(l)
                            ELSE i18n.translations[l]]]
                /\ ilast' = [call EXCEPT !.ret = "true"]
        /\ UNCHANGED <<locales, managerVars, check, cli, sysVars, ui, fmt>>

\* .get(key) on a loaded catalog that is not a dict raises AttributeError
GetRaises(catalog) == ~(CHOOSE c \in catalog : TRUE).mapping

\* dict.get(key) on a loaded catalog
Lookup(catalog, key) == (CHOOSE c \in catalog : TRUE).entries[key]

\* `if translation:` is true for a non-empty string
Truthy(entry) == entry # NoEntry /\ entry # {Str("", {}, TRUE)}

\* str.format(**kwargs) raises for malformed braces or a missing field
FormatRaises(s, kwargs) == ~s.valid \/ ~(s.fields \subseteq DOMAIN kwargs)

\* the string with its fields replaced
Formatted(s, kwargs) == [str |-> s, subst |-> [n \in s.fields |-> kwargs[n]]]

\* the string as it stands
Unformatted(s) == [str |-> s, subst |-> NoArgs]

\* try: return s.format(**kwargs) if kwargs else s / except Exception: return s
FormatOrRaw(s, kwargs) ==
    IF kwargs = NoArgs THEN Unformatted(s)
    ELSE IF FormatRaises(s, kwargs) THEN Unformatted(s)
    ELSE Formatted(s, kwargs)

Translate(key, kwargs) ==
    LET cur == i18n.translations[i18n.current_language]
        en == i18n.translations[DEFAULT_LANGUAGE]
    IN  IF cur # NotLoaded /\ GetRaises(cur)
        THEN [raised |-> "AttributeError", out |-> {}]
        ELSE IF cur # NotLoaded /\ Truthy(Lookup(cur, key))
        THEN [raised |-> "",
              out |-> {FormatOrRaw(CHOOSE s \in Lookup(cur, key) : TRUE, kwargs)}]
        ELSE IF en # NotLoaded /\ GetRaises(en)
        THEN [raised |-> "AttributeError", out |-> {}]
        ELSE IF en # NotLoaded /\ Truthy(Lookup(en, key))
        THEN [raised |-> "",
              out |-> {FormatOrRaw(CHOOSE s \in Lookup(en, key) : TRUE, kwargs)}]
        ELSE [raised |-> "", out |-> {FormatOrRaw(key, kwargs)}]

t(key, kwargs) ==
    /\ ilast' = [NoI18nCall EXCEPT
                    !.op = "t",
                    !.ret = IF Translate(key, kwargs).raised = "" THEN "ok"
                            ELSE Translate(key, kwargs).raised,
                    !.key = {key}, !.kwargs = kwargs,
                    !.out = Translate(key, kwargs).out]
    /\ UNCHANGED <<locales, i18n, managerVars, check, cli, sysVars, ui, fmt>>

\* the state the module's import leaves: set_language(DEFAULT_LANGUAGE)
ImportState ==
    [current_language |-> DEFAULT_LANGUAGE,
     translations |->
        [l \in SUPPORTED_LANGUAGES |->
            IF l = DEFAULT_LANGUAGE THEN LoadTranslations(l) ELSE NotLoaded]]

\* no locale file is installed
InitI18n ==
    /\ locales = [l \in SUPPORTED_LANGUAGES |-> EmptyCatalog]
    /\ i18n = ImportState
    /\ ilast = NoI18nCall

(***************************************************************************)
(* The system checker.  A result is the dict check_tool returns; its       *)
(* `required` key may be missing.                                          *)
(***************************************************************************)
Tools == {"openssl", "update-ca-certificates", "sudo"}

\* `required` is the set of values the key holds: empty when the key is missing
ResultOf(required, available) == [required |-> required, available |-> available]

\* a tool that is not a key of results
NoResult == {}

\* the dicts print_check_results is called with
CheckInputs ==
    [Tools -> {NoResult} \cup
              {{ResultOf(r, a)} : r \in {{}, {TRUE}, {FALSE}}, a \in BOOLEAN}]

Info(results, k) == CHOOSE v \in results[k] : TRUE

GetRequired_DefaultTrue(v) == IF v.required = {} THEN TRUE ELSE CHOOSE b \in v.required : TRUE

\* v.get("required", False)
GetRequired(v) == IF v.required = {} THEN FALSE ELSE CHOOSE b \in v.required : TRUE

required_tools(results) ==
    {k \in Tools : results[k] # NoResult /\ GetRequired(Info(results, k))}

optional_tools(results) ==
    {k \in Tools : results[k] # NoResult /\ ~GetRequired(Info(results, k))}

\* all_required_available after the loop over required_tools
AllRequiredAvailable(results) ==
    \A k \in required_tools(results) : Info(results, k).available

\* the translation keys printed, with the tool they are about
PrintedLines(results) ==
    {<<"check.tool_available", k>> :
        k \in {j \in required_tools(results) \cup optional_tools(results) :
                  Info(results, j).available}}
    \cup {<<"check.tool_unavailable", k>> :
            k \in {j \in required_tools(results) : ~Info(results, j).available}}
    \cup {<<"check.tool_warning", k>> :
            k \in {j \in optional_tools(results) : ~Info(results, j).available}}
    \cup {<<(IF AllRequiredAvailable(results) THEN "check.all_available"
             ELSE "check.some_missing"), "">>}

print_check_results ==
    /\ check.ret = {}
    /\ check' = [check EXCEPT !.ret = {AllRequiredAvailable(check.results)},
                              !.printed = PrintedLines(check.results)]
    /\ UNCHANGED <<managerVars, i18nVars, cli, sysVars, ui, fmt>>

\* self.required_tools on Linux: the `required` flag of each tool
ToolConfig == [k \in Tools |-> k = "openssl"]

\* check_all: one result per configured tool; avail[k] tells whether the tool
\* is found and its test command runs
check_all(avail) == [k \in Tools |-> {ResultOf({ToolConfig[k]}, avail[k])}]

check_system_requirements_AlwaysTrue(avail) == TRUE

check_system_requirements(avail) == AllRequiredAvailable(check_all(avail))

Availabilities == [Tools -> BOOLEAN]

InitCheck ==
    check = [results |-> check_all([k \in Tools |-> TRUE]), ret |-> {}, printed |-> {}]

(***************************************************************************)
(* One run of the process, from its entry point to its exit code.          *)
(* `raised` is the code of the SystemExit raised inside cli(), `exit` the  *)
(* exit code of the process.                                               *)
(***************************************************************************)
EntryPoints == {"main.py", "certica.cli:main"}

Subcommands == {"create-ca", "list-cas", "install", "ui"}

NoRun ==
    [pc |-> "idle", entry |-> "", argv |-> FALSE, check_only |-> FALSE,
     skip_check |-> FALSE, cmd |-> "", avail |-> [k \in Tools |-> TRUE],
     events |-> <<>>, managers |-> FALSE, raised |-> {}, exit |-> {}]

\* the process is started; main.py without arguments runs the interactive UI
start(entry, argv, check_only, skip_check, cmd, avail) ==
    /\ cli.pc = "idle"
    /\ entry = "certica.cli:main" => argv
    /\ ~argv => (~check_only /\ ~skip_check /\ cmd = "ui")
    /\ cli' = [NoRun EXCEPT !.pc = IF argv THEN "group" ELSE "ui_mode",
                            !.entry = entry, !.argv = argv,
                            !.check_only = check_only, !.skip_check = skip_check,
                            !.cmd = cmd, !.avail = avail]
    /\ UNCHANGED <<managerVars, i18nVars, check, sysVars, ui, fmt>>

\* the group callback cli(ctx, base_dir, skip_check, check_only)
cli_group ==
    /\ cli.pc = "group"
    /\ cli' =
        IF cli.check_only
        THEN [cli EXCEPT !.pc = "exiting", !.events = Append(@, "check"),
                         !.raised = {IF check_system_requirements(cli.avail) THEN 0 ELSE 1}]
        ELSE IF ~cli.skip_check /\ ~check_system_requirements(cli.avail)
        THEN [cli EXCEPT !.pc = "exiting", !.events = Append(@, "check"),
                         !.raised = {1}]
        ELSE [cli EXCEPT !.pc = "command",
                         !.events = IF cli.skip_check THEN Append(@, "managers")
                                    ELSE @ \o <<"check", "managers">>,
                         !.managers = TRUE]
    /\ UNCHANGED <<managerVars, i18nVars, check, sysVars, ui, fmt>>

\* the subcommand's callback; `ui` runs the system check itself
cli_command ==
    /\ cli.pc = "command"
    /\ cli' =
        IF cli.cmd = "ui" /\ ~check_system_requirements(cli.avail)
        THEN [cli EXCEPT !.pc = "exiting", !.events = Append(@, "check"),
                         !.raised = {1}]
        ELSE [cli EXCEPT !.pc = "exiting",
                         !.events = IF cli.cmd = "ui" THEN @ \o <<"check", "operation">>
                                    ELSE Append(@, "operation"),
                         !.raised = {0}]
    /\ UNCHANGED <<managerVars, i18nVars, check, sysVars, ui, fmt>>

\* main.py without arguments: the check, then CAUITool().run()
main_ui_mode ==
    /\ cli.pc = "ui_mode"
    /\ cli' =
        IF ~check_system_requirements(cli.avail)
        THEN [cli EXCEPT !.pc = "exiting", !.events = Append(@, "check"),
                         !.raised = {1}]
        ELSE [cli EXCEPT !.pc = "exiting",
                         !.events = @ \o <<"check", "managers", "operation">>,
                         !.managers = TRUE, !.raised = {0}]
    /\ UNCHANGED <<managerVars, i18nVars, check, sysVars, ui, fmt>>

\* what main.py does with a SystemExit raised by cli(): except SystemExit: pass
MainCatchesExit(run) == run.entry = "main.py" /\ run.argv

\* the process ends
process_exit ==
    /\ cli.pc = "exiting"
    /\ cli' = [cli EXCEPT !.pc = "done",
                          !.exit = IF MainCatchesExit(cli) THEN {0} ELSE cli.raised]
    /\ UNCHANGED <<managerVars, i18nVars, check, sysVars, ui, fmt>>

InitCli == cli = NoRun

(***************************************************************************)
(* The system certificate manager on Linux.  A string of /etc/os-release   *)
(* is a sequence of pieces whose concatenation is the string; the pieces   *)
(* are cut so that a family name occurs in a string only as a whole piece. *)
(***************************************************************************)
Word(w) == <<w>>

\* a value as it stands in the file, inside double quotes
Quoted(s) == <<"\"">> \o s \o <<"\"">>

UpperPieces == <<"Ubuntu", "Gentoo", "Debian">>
LowerPieces == <<"ubuntu", "gentoo", "debian">>

\* str.lower
LowerStr(s) ==
    [i \in 1 .. Len(s) |->
        IF \E j \in 1 .. Len(UpperPieces) : UpperPieces[j] = s[i]
        THEN LowerPieces[CHOOSE j \in 1 .. Len(UpperPieces) : UpperPieces[j] = s[i]]
        ELSE s[i]]

\* str.strip(q): every leading and trailing q is dropped
RECURSIVE StripStr(_, _)
StripStr(s, q) ==
    IF s = <<>> THEN s
    ELSE IF Head(s) = q THEN StripStr(Tail(s), q)
    ELSE IF s[Len(s)] = q THEN StripStr(SubSeq(s, 1, Len(s) - 1), q)
    ELSE s

\* `w in s` for a family name w
Contains(s, w) == \E i \in 1 .. Len(s) : s[i] = w

\* the value of a key that the file does not hold
NoValue == {}

\* /etc/os-release does not exist
NoOsRelease == {}

IdValues ==
    {Word("ubuntu"), Word("Ubuntu"), Quoted(Word("debian")), Word("fedora"), Word("rhel"),
     Quoted(Word("centos")), Word("rocky"), Word("almalinux"), Word("arch"),
     Word("manjaro"), <<"open", "suse">>, Word("sles"), Word("suse"),
     Word("gentoo"), Word("Gentoo"), Word("linuxmint"), <<>>}

IdLikeValues ==
    {Word("debian"), Quoted(<<"ubuntu", " ", "debian">>), Quoted(<<"rhel", " ", "fedora">>),
     Word("fedora"), <<"arch", "linux">>, Quoted(<<"suse", " ", "open", "suse">>),
     Word("Debian"), Word("slackware")}

\* the files /etc/os-release may be: the ID and ID_LIKE lines it holds
OsReleaseFiles ==
    {NoOsRelease} \cup
    {{[ID |-> i, ID_LIKE |-> l]} :
        i \in {NoValue} \cup {{v} : v \in IdValues},
        l \in {NoValue} \cup {{v} : v \in IdLikeValues}}

\* distro_info is None
NoDistroInfo == {}

\* value.strip('"').strip("'")
Unquote(value) == StripStr(StripStr(value, "\""), "'")

\* _detect_linux_distro: the key=value lines as a dict, None when it is empty
detect_linux_distro(file) ==
    IF file = NoOsRelease THEN NoDistroInfo
    ELSE LET f == CHOOSE r \in file : TRUE
         IN  IF f.ID = NoValue /\ f.ID_LIKE = NoValue THEN NoDistroInfo
             ELSE {[ID |-> {Unquote(v) : v \in f.ID},
                    ID_LIKE |-> {Unquote(v) : v \in f.ID_LIKE}]}

\* dict.get(key, "")
GetOrEmpty(value) == IF value = NoValue THEN <<>> ELSE CHOOSE v \in value : TRUE

\* _get_linux_distro_id returns None
NoDistroId == {}

ReturnedId_NotLowered(info) == {GetOrEmpty(info.ID)}

\* return distro_id if distro_id else None
ReturnedId(info) == {LowerStr(GetOrEmpty(info.ID))}

get_linux_distro_id(distro_info) ==
    IF distro_info = NoDistroInfo THEN NoDistroId
    ELSE LET info == CHOOSE r \in distro_info : TRUE
             distro_id == LowerStr(GetOrEmpty(info.ID))
             id_like == LowerStr(GetOrEmpty(info.ID_LIKE))
         IN  IF distro_id \in {Word("ubuntu"), Word("debian")} \/ Contains(id_like, "debian")
             THEN {Word("debian")}
             ELSE IF \/ distro_id \in {Word("fedora"), Word("rhel"), Word("centos"),
                                       Word("rocky"), Word("almalinux")}
                     \/ Contains(id_like, "fedora")
                     \/ Contains(id_like, "rhel")
             THEN {Word("fedora")}
             ELSE IF distro_id \in {Word("arch"), Word("manjaro")} \/ Contains(id_like, "arch")
             THEN {Word("arch")}
             ELSE IF \/ distro_id \in {<<"open", "suse">>, Word("sles"), Word("suse")}
                     \/ Contains(id_like, "suse")
             THEN {Word("suse")}
             ELSE IF distro_id # <<>> THEN ReturnedId(info) ELSE NoDistroId

Method(cert_dir, update_cmd) == [cert_dir |-> cert_dir, update_cmd |-> update_cmd]

DebianMethod == Method("/usr/local/share/ca-certificates", <<"update-ca-certificates">>)
FedoraMethod == Method("/etc/pki/ca-trust/source/anchors", <<"update-ca-trust", "extract">>)
ArchMethod == Method("/etc/ca-certificates/trust-source/anchors", <<"trust", "extract-compat">>)
SuseMethod == Method("/etc/pki/trust/anchors", <<"update-ca-certificates">>)

\* install_methods of _install_linux
InstallMethods(distro_id) ==
    IF distro_id = {Word("debian")} THEN <<DebianMethod>>
    ELSE IF distro_id = {Word("fedora")} THEN <<FedoraMethod>>
    ELSE IF distro_id = {Word("arch")} THEN <<ArchMethod, DebianMethod>>
    ELSE IF distro_id = {Word("suse")} THEN <<SuseMethod>>
    ELSE <<DebianMethod, FedoraMethod, ArchMethod, SuseMethod>>

\* remove_methods of _remove_linux
RemoveMethods(distro_id) ==
    IF distro_id = {Word("debian")} THEN <<DebianMethod>>
    ELSE IF distro_id = {Word("fedora")} THEN <<FedoraMethod>>
    ELSE IF distro_id = {Word("arch")} THEN <<ArchMethod, DebianMethod>>
    ELSE IF distro_id = {Word("suse")} THEN <<SuseMethod>>
    ELSE <<DebianMethod, FedoraMethod, ArchMethod, SuseMethod>>

\* password=None, and self.sudo_password as __init__ leaves it
NoPassword == {}

\* the password argument: None, "" or a password
Passwords == {NoPassword, {""}, {"secret"}}

\* what getpass.getpass gives: a line, or KeyboardInterrupt / EOFError ("^C")
Typed == {"secret", "", "^C"}

\* `if password:` for an Optional[str]
HasPassword(password) == password # NoPassword /\ password # {""}

\* _get_sudo_password: the cached password, else the typed one, else None
get_sudo_password(sudo_password, typed) ==
    IF HasPassword(sudo_password) THEN sudo_password
    ELSE IF typed = "^C" THEN NoPassword
    ELSE IF typed # "" THEN {typed} ELSE NoPassword

\* the head of _install_linux and _remove_linux: the password the sudo
\* commands are run with, NoPassword when the call gives up
ObtainPassword(password, sudo_password, typed) ==
    IF password = NoPassword THEN get_sudo_password(sudo_password, typed) ELSE password

\* _run_sudo_command: `sudo -S` fed with the password, or plain `sudo`
SudoArgv(password) == IF HasPassword(password) THEN <<"sudo", "-S">> ELSE <<"sudo">>

NewManager(file) ==
    [pc |-> "new", os_release |-> file, distro_info |-> NoDistroInfo,
     distro_id |-> NoDistroId, install_methods |-> <<>>, remove_methods |-> <<>>,
     sudo_password |-> NoPassword]

\* SystemCertManager.__init__ on Linux
SystemCertManagerInit ==
    /\ distro.pc = "new"
    /\ distro' = [distro EXCEPT !.pc = "constructed",
                                !.distro_info = detect_linux_distro(distro.os_release)]
    /\ UNCHANGED <<managerVars, i18nVars, check, cli, trust, slast, verify, rlast, ui, fmt>>

\* the head of _install_linux and _remove_linux: the family and the methods
classify ==
    /\ distro.pc = "constructed"
    /\ LET distro_id == get_linux_distro_id(distro.distro_info)
       IN  distro' = [distro EXCEPT !.pc = "classified",
                                    !.distro_id = distro_id,
                                    !.install_methods = InstallMethods(distro_id),
                                    !.remove_methods = RemoveMethods(distro_id)]
    /\ UNCHANGED <<managerVars, i18nVars, check, cli, trust, slast, verify, rlast, ui, fmt>>

\* how one candidate method goes
MethodOutcomes ==
    {"no_parent", "mkdir_fail", "cp_fail", "update_fail", "update_fail_rm_fail",
     "verify_fail", "ok"}

MethodSucceeds_OnlyVerified(o) == o = "ok"

\* copy and refresh went through: the method returns True whatever
\* _verify_installation says
MethodSucceeds(o) == o \in {"ok", "verify_fail"}

Cmd(i, name) == [method |-> i, cmd |-> name]

\* the sudo commands one candidate issues (chmod left out)
MethodCmds(i, o) ==
    CASE o = "no_parent" -> <<>>
      [] o = "mkdir_fail" -> <<Cmd(i, "mkdir")>>
      [] o = "cp_fail" -> <<Cmd(i, "cp")>>
      [] o \in {"update_fail", "update_fail_rm_fail"} ->
            <<Cmd(i, "cp"), Cmd(i, "update"), Cmd(i, "rm")>>
      [] OTHER -> <<Cmd(i, "cp"), Cmd(i, "update")>>

\* whether {ca_name}.crt is left in the candidate's directory
MethodLeavesFile(o) == o \in {"update_fail_rm_fail", "verify_fail", "ok"}

\* the loop over install_methods from candidate i on
RECURSIVE TryMethods(_, _, _, _)
TryMethods(methods, env, i, acc) ==
    IF i > Len(methods) THEN [acc EXCEPT !.ret = "false"]
    ELSE LET o == env[i]
             next == [acc EXCEPT
                        !.cmds = @ \o MethodCmds(i, o),
                        !.files = IF MethodLeavesFile(o)
                                  THEN @ \cup {methods[i].cert_dir} ELSE @]
         IN  IF MethodSucceeds(o) THEN [next EXCEPT !.ret = "true"]
             ELSE TryMethods(methods, env, i + 1, next)

NoInstall ==
    [op |-> "none", password |-> NoPassword, typed |-> "", sudo |-> <<>>,
     distro_id |-> NoDistroId, methods |-> <<>>, env |-> <<>>, ret |-> "", cmds |-> <<>>]

\* _install_linux(ca_cert_path, ca_name, password); `typed` is what the
\* prompt receives when it is shown
install_linux(password, typed, env) ==
    LET distro_id == get_linux_distro_id(distro.distro_info)
        methods == InstallMethods(distro_id)
        obtained == ObtainPassword(password, distro.sudo_password, typed)
        call == [NoInstall EXCEPT !.op = "install", !.password = password,
                                  !.typed = typed, !.distro_id = distro_id,
                                  !.methods = methods]
    IN  /\ distro.pc = "constructed"
        /\ slast.op = "none"
        /\ password # NoPassword => typed = ""
        /\ IF obtained = NoPassword
           THEN /\ env = <<>>
                /\ slast' = [call EXCEPT !.ret = "false"]
                /\ UNCHANGED trust
           ELSE /\ env \in [1 .. Len(methods) -> MethodOutcomes]
                /\ LET run == TryMethods(methods, env, 1,
                                         [ret |-> "", cmds |-> <<>>, files |-> trust])
                   IN  /\ slast' = [call EXCEPT !.env = env, !.ret = run.ret,
                                                !.cmds = run.cmds,
                                                !.sudo = SudoArgv(obtained)]
                       /\ trust' = run.files
        /\ UNCHANGED <<managerVars, i18nVars, check, cli, distro, verify, rlast, ui, fmt>>

(***************************************************************************)
(* Removal from the Linux trust store.                                     *)
(***************************************************************************)
\* how the two sudo commands of one candidate go, if its file exists
RemoveOutcomes == {"rm_fail", "update_fail", "ok"}

RemoveSucceeds_RmOnly(o) == o \in {"ok", "update_fail"}

\* rm and the refresh command both went through
RemoveSucceeds(o) == o = "ok"

\* the loop over remove_methods from candidate i on
RECURSIVE TryRemove(_, _, _, _)
TryRemove(methods, env, i, acc) ==
    IF i > Len(methods) THEN [acc EXCEPT !.ret = "false"]
    ELSE IF methods[i].cert_dir \notin acc.files
    THEN TryRemove(methods, env, i + 1, acc)
    ELSE IF env[i] = "rm_fail"
    THEN TryRemove(methods, env, i + 1, [acc EXCEPT !.cmds = @ \o <<Cmd(i, "rm")>>])
    ELSE LET removed == [acc EXCEPT !.cmds = @ \o <<Cmd(i, "rm"), Cmd(i, "update")>>,
                                    !.files = @ \ {methods[i].cert_dir}]
         IN  IF RemoveSucceeds(env[i])
             THEN [removed EXCEPT !.ret = "true"]
             ELSE TryRemove(methods, env, i + 1, removed)

\* _verify_removal: no {ca_name}.crt is left at a path of the family
verify_removal(distro_id, files) ==
    LET check_paths == {RemoveMethods(distro_id)[i].cert_dir :
                            i \in 1 .. Len(RemoveMethods(distro_id))}
    IN  check_paths \cap files = {}

NoRemove ==
    [op |-> "none", password |-> NoPassword, typed |-> "", sudo |-> <<>>,
     distro_id |-> NoDistroId, methods |-> <<>>, env |-> <<>>, before |-> {},
     ret |-> "", cmds |-> <<>>]

\* _remove_linux(ca_name, password)
remove_linux(password, typed, env) ==
    LET distro_id == get_linux_distro_id(distro.distro_info)
        methods == RemoveMethods(distro_id)
        obtained == ObtainPassword(password, distro.sudo_password, typed)
        call == [NoRemove EXCEPT !.op = "remove", !.password = password,
                                 !.typed = typed, !.distro_id = distro_id,
                                 !.methods = methods, !.before = trust]
    IN  /\ distro.pc = "constructed"
        /\ rlast.op = "none"
        /\ password # NoPassword => typed = ""
        /\ IF obtained = NoPassword
           THEN /\ env = <<>>
                /\ rlast' = [call EXCEPT !.ret = "false"]
                /\ UNCHANGED trust
           ELSE /\ env \in [1 .. Len(methods) -> RemoveOutcomes]
                /\ LET run == TryRemove(methods, env, 1,
                                        [ret |-> "", cmds |-> <<>>, files |-> trust])
                   IN  /\ rlast' = [call EXCEPT !.env = env, !.ret = run.ret,
                                                !.cmds = run.cmds,
                                                !.sudo = SudoArgv(obtained)]
                       /\ trust' = run.files
        /\ UNCHANGED <<managerVars, i18nVars, check, cli, distro, slast, verify, ui, fmt>>

(***************************************************************************)
(* Verification of an installed certificate.  The output of openssl is a   *)
(* sequence of characters; a fingerprint is None ({}) or one string.       *)
(***************************************************************************)
HexUpper == <<"A", "B", "C", "D">>
HexLower == <<"a", "b", "c", "d">>

\* str.upper
UpperHex(s) ==
    [i \in 1 .. Len(s) |->
        IF \E j \in 1 .. Len(HexLower) : HexLower[j] = s[i]
        THEN HexUpper[CHOOSE j \in 1 .. Len(HexLower) : HexLower[j] = s[i]]
        ELSE s[i]]

\* str.split(sep, 1)[1]
SplitRest(s, sep) ==
    LET at == {i \in 1 .. Len(s) : s[i] = sep}
    IN  SubSeq(s, (CHOOSE i \in at : \A j \in at : i <= j) + 1, Len(s))

\* str.replace(c, "")
Replace(s, c) == SelectSeq(s, LAMBDA x : x # c)

\* one run of openssl: whether it exits with 0 and what it writes to stdout
OpensslRun(ok, stdout) == [ok |-> ok, stdout |-> stdout]

NoFingerprint == {}

get_certificate_fingerprint_NoUpper(run) ==
    IF ~run.ok THEN NoFingerprint
    ELSE LET fingerprint_line == StripStr(run.stdout, "\n")
         IN  IF Contains(fingerprint_line, "=")
             THEN {Replace(SplitRest(fingerprint_line, "="), ":")}
             ELSE NoFingerprint

\* _get_certificate_fingerprint: None when openssl fails or prints no "="
get_certificate_fingerprint(run) ==
    IF ~run.ok THEN NoFingerprint
    ELSE LET fingerprint_line == StripStr(run.stdout, "\n")
         IN  IF Contains(fingerprint_line, "=")
             THEN {UpperHex(Replace(SplitRest(fingerprint_line, "="), ":"))}
             ELSE NoFingerprint

\* `not fp` for an Optional[str]
NotFp(fp) == fp = NoFingerprint \/ fp = {<<>>}

NoVerify ==
    [pc |-> "ready", exists |-> FALSE, source |-> OpensslRun(FALSE, <<>>),
     installed |-> OpensslRun(FALSE, <<>>), subject |-> FALSE,
     ret |-> "", printed |-> <<>>]

\* the body of _verify_installation: the return value and the message keys
VerifyInstallation(exists, source, installed, subject) ==
    LET source_fp == get_certificate_fingerprint(source)
        installed_fp == get_certificate_fingerprint(installed)
        readable == IF subject THEN <<"cert_readable">> ELSE <<"cert_readable_error">>
    IN  IF ~exists
        THEN [ret |-> "false", printed |-> <<"installing", "file_not_exists">>]
        ELSE IF NotFp(source_fp) \/ NotFp(installed_fp)
        THEN [ret |-> "true",
              printed |-> <<"installing", "fingerprint_skip">> \o readable]
        ELSE IF source_fp # installed_fp
        THEN [ret |-> "false",
              printed |-> <<"installing", "fingerprint_mismatch", "fingerprint_source",
                            "fingerprint_installed">>]
        ELSE [ret |-> "true",
              printed |-> <<"installing", "fingerprint_match">> \o readable]

\* _verify_installation(source_cert_path, installed_cert_path, ca_name)
verify_installation ==
    /\ verify.pc = "ready"
    /\ LET r == VerifyInstallation(verify.exists, verify.source, verify.installed,
                                   verify.subject)
       IN  verify' = [verify EXCEPT !.pc = "done", !.ret = r.ret, !.printed = r.printed]
    /\ UNCHANGED <<managerVars, i18nVars, check, cli, distro, trust, slast, rlast, ui, fmt>>

(***************************************************************************)
(* The interactive UI.  A flow is the sequence of its prompts, the manager *)
(* operation it ends with, and what it does with an exception of that      *)
(* operation.  A prompt records what the flow does when the prompt gives   *)
(* None: "return" (leave the function), "wait_return" (show a panel, wait  *)
(* for a key, leave), "restart" (`continue` of the flow's own loop) or     *)
(* "proceed" (go on with the next prompt).                                 *)
(***************************************************************************)
Prompt(name, kind, on_none) == [name |-> name, kind |-> kind, on_none |-> on_none]

\* organization, country, state, city, validity, key_size: `if x is None: return`
DetailPrompts ==
    <<Prompt("organization", "text", "return"), Prompt("country", "text", "return"),
      Prompt("state", "text", "return"), Prompt("city", "text", "return"),
      Prompt("validity", "int", "return"), Prompt("key_size", "int", "return")>>

Flow(prompts, op, catches, parent, loops, lists) ==
    [prompts |-> prompts, op |-> op, catches |-> catches, parent |-> parent,
     loops |-> loops, lists |-> lists]

\* _create_root_ca
CreateRootCaFlow ==
    Flow(<<Prompt("ca_name", "name", "return")>> \o DetailPrompts,
         "create_root_ca", TRUE, "menu", FALSE, FALSE)

\* _sign_certificate: `_safe_text_input(...) or ""` turns None into "" before
\* the `is None` test of dns_input and ip_input
SignCertificateFlow ==
    Flow(<<Prompt("select_ca", "select", "return"),
           Prompt("cert_type", "select", "return"),
           Prompt("cert_name", "name", "return"),
           Prompt("common_name", "text", "return"),
           Prompt("dns_names", "text", "proceed"),
           Prompt("ip_addresses", "text", "proceed")>> \o DetailPrompts,
         "sign_certificate", TRUE, "menu", FALSE, TRUE)

\* _manage_cas with _delete_ca
ManageCasFlow ==
    Flow(<<Prompt("select_ca", "select_back", "return"),
           Prompt("select_action", "action", "restart"),
           Prompt("confirm", "confirm", "wait_return")>>,
         "delete_ca", TRUE, "menu", TRUE, TRUE)

\* _manage_certificates with _delete_certificate
ManageCertificatesFlow ==
    Flow(<<Prompt("select_ca", "select_back", "return"),
           Prompt("select_cert", "select_back", "restart"),
           Prompt("select_action", "action", "restart"),
           Prompt("confirm", "confirm", "wait_return")>>,
         "delete_certificate", TRUE, "menu", TRUE, TRUE)

\* _create_template: create_template is called outside any try
CreateTemplateFlow ==
    Flow(<<Prompt("template_name", "name", "return")>> \o DetailPrompts,
         "create_template", FALSE, "templates", FALSE, FALSE)

\* _list_templates
ListTemplatesFlow == Flow(<<>>, "list_templates", FALSE, "templates", FALSE, TRUE)

\* _load_template: `except ValueError` takes json.load's JSONDecodeError
LoadTemplateFlow ==
    Flow(<<Prompt("select", "select", "return")>>,
         "load_template", TRUE, "templates", FALSE, TRUE)

\* _delete_template: `except ValueError` does not take unlink's OSError
DeleteTemplateFlow ==
    Flow(<<Prompt("select", "select", "return"),
           Prompt("confirm", "confirm", "wait_return")>>,
         "delete_template", FALSE, "templates", FALSE, TRUE)

\* _install_certificate
InstallCertificateFlow ==
    Flow(<<Prompt("select_ca", "select", "return"),
           Prompt("confirm", "confirm", "wait_return"),
           Prompt("password", "password", "wait_return")>>,
         "install_ca_cert", TRUE, "menu", FALSE, TRUE)

\* _remove_certificate
RemoveCertificateFlow ==
    Flow(<<Prompt("ca_name", "name", "return"),
           Prompt("confirm", "confirm", "wait_return"),
           Prompt("password", "password", "wait_return")>>,
         "remove_ca_cert", TRUE, "menu", FALSE, FALSE)

\* the choices of the top-level menu; "0" is Exit and "5" the template menu
MenuChoices ==
    [c \in {"1", "2", "3", "4", "6", "7"} |->
        CASE c = "1" -> CreateRootCaFlow
          [] c = "2" -> SignCertificateFlow
          [] c = "3" -> ManageCasFlow
          [] c = "4" -> ManageCertificatesFlow
          [] c = "6" -> InstallCertificateFlow
          [] c = "7" -> RemoveCertificateFlow]

\* the choices of _manage_templates; "0" is Back
TemplateChoices ==
    [c \in {"1", "2", "3", "4"} |->
        CASE c = "1" -> CreateTemplateFlow
          [] c = "2" -> ListTemplatesFlow
          [] c = "3" -> LoadTemplateFlow
          [] c = "4" -> DeleteTemplateFlow]

\* the manager operations that change the store, the templates or the
\* system trust store
MutatingOps ==
    {"create_root_ca", "sign_certificate", "delete_ca", "delete_certificate",
     "create_template", "delete_template", "install_ca_cert", "remove_ca_cert"}

\* the operations that report a failure by raising
RaisingOps ==
    {"create_root_ca", "sign_certificate", "create_template", "delete_template",
     "load_template"}

\* what the user does at a prompt of each kind; "cancel" is Ctrl+C
Answers(kind) ==
    CASE kind = "name" -> {"cancel", "value", "empty"}
      [] kind = "text" -> {"cancel", "value", "empty"}
      [] kind = "int" -> {"cancel", "value", "empty", "bad"}
      [] kind = "select" -> {"cancel", "value"}
      [] kind = "select_back" -> {"cancel", "value", "back"}
      [] kind = "action" -> {"cancel", "value", "back", "view"}
      [] kind = "confirm" -> {"cancel", "value", "no"}
      [] kind = "password" -> {"cancel", "value", "empty"}

AllAnswers == {"cancel", "value", "empty", "bad", "back", "view", "no"}

\* _safe_text_input, _safe_select, _safe_confirm and questionary's ask():
\* whether the flow's test of the answer takes its None branch
TakesNoneBranch(kind, answer) ==
    \/ answer = "cancel"
    \/ kind = "name" /\ answer = "empty"
    \/ kind \in {"select_back", "action"} /\ answer = "back"
    \/ kind = "confirm" /\ answer = "no"

NoFlow == Flow(<<>>, "", FALSE, "menu", FALSE, FALSE)

\* CAUITool as run() finds it
NoUi ==
    [pc |-> "menu", flow |-> NoFlow, at |-> 0, cancelled |-> FALSE, bad |-> FALSE,
     after |-> "", calls |-> {}, end |-> "", answer |-> ""]

\* back in a menu: the flow is over
AtMenu(menu) == [NoUi EXCEPT !.pc = menu]

\* the head of a flow: without the list it selects from, a panel and return
Enter(flow, have) ==
    LET u == [NoUi EXCEPT !.flow = flow]
    IN  IF flow.lists /\ ~have
        THEN [u EXCEPT !.pc = "wait", !.after = flow.parent]
        ELSE IF flow.prompts = <<>>
        THEN [u EXCEPT !.pc = "call"]
        ELSE [u EXCEPT !.pc = "prompt", !.at = 1]

\* CAUITool.run: one turn of the top-level loop
run(choice, have) ==
    /\ ui.pc = "menu"
    /\ ui' = IF choice = "cancel" THEN [NoUi EXCEPT !.pc = "ended", !.end = "cancelled"]
             ELSE IF choice = "0" THEN [NoUi EXCEPT !.pc = "ended", !.end = "exit"]
             ELSE IF choice = "5" THEN AtMenu("templates")
             ELSE Enter(MenuChoices[choice], have)
    /\ UNCHANGED <<managerVars, i18nVars, check, cli, sysVars, fmt>>

\* _manage_templates: one turn of its loop
manage_templates(choice, have) ==
    /\ ui.pc = "templates"
    /\ ui' = IF choice \in {"cancel", "0"} THEN AtMenu("menu")
             ELSE Enter(TemplateChoices[choice], have)
    /\ UNCHANGED <<managerVars, i18nVars, check, cli, sysVars, fmt>>

\* one prompt of a flow and the test that follows it
ask(answer) ==
    LET p == ui.flow.prompts[ui.at]
        cancelled == ui.cancelled \/ answer = "cancel"
        on == IF TakesNoneBranch(p.kind, answer) THEN p.on_none
              ELSE IF answer = "view" THEN "view" ELSE "proceed"
    IN  /\ ui.pc = "prompt"
        /\ answer \in Answers(p.kind)
        /\ ui' =
             CASE on = "return" -> AtMenu(ui.flow.parent)
               [] on = "restart" -> Enter(ui.flow, TRUE)
               [] on \in {"wait_return", "view"} ->
                    [ui EXCEPT !.pc = "wait", !.cancelled = cancelled,
                               !.answer = answer,
                               !.after = IF ui.flow.loops THEN "restart"
                                         ELSE ui.flow.parent]
               [] OTHER ->
                    [ui EXCEPT !.cancelled = cancelled,
                               !.answer = answer,
                               !.bad = @ \/ answer = "bad",
                               !.pc = IF ui.at = Len(ui.flow.prompts) THEN "call"
                                      ELSE "prompt",
                               !.at = IF ui.at = Len(ui.flow.prompts) THEN @ ELSE @ + 1]
        /\ UNCHANGED <<managerVars, i18nVars, check, cli, sysVars, fmt>>

\* the end of a flow: int() of the two numbers, then the manager operation
invoke(outcome) ==
    LET after == IF ui.flow.loops THEN "restart" ELSE ui.flow.parent
        called == [ui EXCEPT !.calls = @ \cup {[op |-> ui.flow.op,
                                                 after_cancel |-> ui.cancelled]}]
    IN  /\ ui.pc = "call"
        /\ outcome \in {"ok", "fail"}
        /\ ui' =
             IF ui.bad THEN [ui EXCEPT !.pc = "wait", !.after = after]
             ELSE IF outcome = "fail" /\ ui.flow.op \in RaisingOps /\ ~ui.flow.catches
             THEN [called EXCEPT !.pc = "ended", !.end = "exception"]
             ELSE [called EXCEPT !.pc = "wait", !.after = after]
        /\ UNCHANGED <<managerVars, i18nVars, check, cli, sysVars, fmt>>

\* _wait_for_continue, and the return that follows it
wait_for_continue ==
    /\ ui.pc = "wait"
    /\ ui' = IF ui.after = "restart" THEN Enter(ui.flow, TRUE) ELSE AtMenu(ui.after)
    /\ UNCHANGED <<managerVars, i18nVars, check, cli, sysVars, fmt>>

InitUi == ui = NoUi

(***************************************************************************)
(* Path formatting for display.  A path is a sequence of pieces: "/" and   *)
(* "\\" are the separators, every other piece is a run of ordinary         *)
(* characters, so that "myoutput_dir" is <<"my", "output", "_dir">>.       *)
(***************************************************************************)
\* the working directory of the process
Cwd == <<"/", "w">>

\* str.startswith
StartsWith(s, prefix) ==
    Len(s) >= Len(prefix) /\ SubSeq(s, 1, Len(prefix)) = prefix

\* str.find, counted from 1; 0 when sub does not occur
Find(s, sub) ==
    LET at == {i \in 1 .. Len(s) - Len(sub) + 1 : SubSeq(s, i, i + Len(sub) - 1) = sub}
    IN  IF at = {} THEN 0 ELSE CHOOSE i \in at : \A j \in at : i <= j

\* str.split(sep)[1], for a sep that occurs in s
SplitSecond(s, sep) ==
    LET rest == SubSeq(s, Find(s, sep) + Len(sep), Len(s))
    IN  IF Find(rest, sep) = 0 THEN rest ELSE SubSeq(rest, 1, Find(rest, sep) - 1)

\* str.lstrip("/\\")
RECURSIVE LStrip(_)
LStrip(s) ==
    IF s # <<>> /\ Head(s) \in {"/", "\\"} THEN LStrip(Tail(s)) ELSE s

\* the components of a POSIX path: the pieces between "/", without "" and "."
RECURSIVE Components(_, _, _)
Components(s, current, done) ==
    LET closed == IF current \in {<<>>, <<".">>} THEN done ELSE Append(done, current)
    IN  IF s = <<>> THEN closed
        ELSE IF Head(s) = "/" THEN Components(Tail(s), <<>>, closed)
        ELSE Components(Tail(s), Append(current, Head(s)), done)

\* Path(p).resolve(), as components from the root
Resolve(p) ==
    IF p # <<>> /\ Head(p) = "/" THEN Components(p, <<>>, <<>>)
    ELSE Components(Cwd \o <<"/">> \o p, <<>>, <<>>)

\* str() of a relative path made of the components: "." when there is none
RECURSIVE JoinPath(_)
JoinPath(components) ==
    IF components = <<>> THEN <<".">>
    ELSE IF Len(components) = 1 THEN components[1]
    ELSE components[1] \o <<"/">> \o JoinPath(Tail(components))

\* _format_path(path, base_dir); str.split("") raises ValueError, which the
\* outer except turns into the original path
format_path(path, base_dir) ==
    LET path_obj == Resolve(path)
        base_path == Resolve(base_dir)
    IN  IF StartsWith(path, base_dir \o <<"/">>) \/ StartsWith(path, base_dir \o <<"\\">>)
        THEN SubSeq(path, Len(base_dir) + 2, Len(path))
        ELSE IF StartsWith(path_obj, base_path)
        THEN JoinPath(SubSeq(path_obj, Len(base_path) + 1, Len(path_obj)))
        ELSE IF base_dir = <<>> THEN path
        ELSE IF Find(path, base_dir) # 0
        THEN LET remaining == LStrip(SplitSecond(path, base_dir))
             IN  IF remaining # <<>> THEN remaining ELSE path
        ELSE path

NoFormat == [pc |-> "new", path |-> <<>>, base_dir |-> <<>>, once |-> <<>>, twice |-> <<>>]

\* the path is formatted for display
format_once ==
    /\ fmt.pc = "new"
    /\ fmt' = [fmt EXCEPT !.pc = "once", !.once = format_path(fmt.path, fmt.base_dir)]
    /\ UNCHANGED <<managerVars, i18nVars, check, cli, sysVars, ui>>

\* the formatted path is formatted again
format_twice ==
    /\ fmt.pc = "once"
    /\ fmt' = [fmt EXCEPT !.pc = "twice", !.twice = format_path(fmt.once, fmt.base_dir)]
    /\ UNCHANGED <<managerVars, i18nVars, check, cli, sysVars, ui>>

InitFormat == fmt = NoFormat

InitSys ==
    /\ distro = NewManager(NoOsRelease)
    /\ trust = {}
    /\ slast = NoInstall
    /\ verify = NoVerify
    /\ rlast = NoRemove

InitExt == InitI18n /\ InitCheck /\ InitCli /\ InitSys /\ InitUi /\ InitFormat

(***************************************************************************)
(* The store's specification: both managers constructed on an empty base   *)
(* directory, then any sequence of their mutating operations.              *)
(***************************************************************************)
InitStore ==
    /\ ca = [X \in CANames |-> NoCaDir]
    /\ certs = [C \in CANames |-> NoCertsDir]
    /\ last = NoCall
    /\ kills = 0
    /\ ops = 0

InitCN ==
    /\ cnIn = [common_name |-> "", dns_names |-> <<>>, ip_addresses |-> <<>>,
               cert_name |-> "n1"]
    /\ cnOut = <<>>

InitTemplates ==
    /\ templates = [f \in TemplateFiles |-> Absent]
    /\ tlast = NoTemplateCall

Init == InitStore /\ InitCN /\ InitTemplates /\ InitExt

Next ==
    \/ \E X \in CANames, k \in KeyVals, out \in CaOutcomes : create_root_ca(X, k, out)
    \/ \E X \in CANames, out \in DeleteOutcomes : delete_ca(X, out)
    \/ \E C \in CANames, N \in CertNames, out \in SignOutcomes : sign_certificate(C, N, out)
    \/ \E C \in CANames, N \in CertNames, ok \in BOOLEAN : delete_certificate(C, N, ok)

Spec == Init /\ [][Next]_vars

(***************************************************************************)
(* The common-name derivation on its own: sign_certificate's first lines,  *)
(* applied to every argument list up to MaxNames names long.  A None list  *)
(* is replaced by the empty list before the derivation.                    *)
(***************************************************************************)
DnsPool == {"d1", "d2"}
IpPool == {"i1", "i2"}

ListsOver(S) == UNION {[1 .. n -> S] : n \in 0 .. MaxNames}

CnInputs ==
    [common_name : {"", "cn"}, dns_names : ListsOver(DnsPool),
     ip_addresses : ListsOver(IpPool), cert_name : CertNames]

derive_common_name ==
    /\ cnOut = <<>>
    /\ cnOut' = <<CommonName(cnIn.common_name, cnIn.dns_names, cnIn.ip_addresses,
                             cnIn.cert_name)>>
    /\ UNCHANGED <<cnIn, storeVars, tplVars, extVars>>

InitArgs ==
    /\ InitStore
    /\ InitTemplates
    /\ InitExt
    /\ cnIn \in CnInputs
    /\ cnOut = <<>>

NextCN == derive_common_name

SpecCN == InitArgs /\ [][NextCN]_vars

(***************************************************************************)
(* The template store's specification.                                     *)
(***************************************************************************)
NextTemplates ==
    \/ \E n \in TemplateNames, d \in Bundles : create_template(n, d)
    \/ \E arg \in {{}} \cup {{n} : n \in TemplateNames} : load_template(arg)
    \/ list_templates
    \/ \E n \in TemplateNames : delete_template(n)

SpecTemplates == Init /\ [][NextTemplates]_vars

(***************************************************************************)
(* The i18n module's specification: the locale files of English and        *)
(* Chinese hold any JSON, the module is imported, then any sequence of     *)
(* set_language and t calls.                                               *)
(***************************************************************************)
FileContents == {CatalogOf(e) : e \in Entries \cup {NoEntry}} \cup {NotAMapping}

LocaleFiles ==
    {[l \in SUPPORTED_LANGUAGES |->
        IF l = DEFAULT_LANGUAGE THEN e
        ELSE IF l = Chars("z", "h") THEN z
        ELSE EmptyCatalog] : e \in FileContents, z \in FileContents}

InitLocales ==
    /\ InitStore
    /\ InitCN
    /\ InitTemplates
    /\ InitCheck
    /\ InitCli
    /\ InitUi
    /\ InitFormat
    /\ InitSys
    /\ locales \in LocaleFiles
    /\ i18n = ImportState
    /\ ilast = NoI18nCall

NextI18n ==
    \/ \E lang \in LangArgs : set_language(lang)
    \/ \E key \in Keys, kwargs \in Kwargs : t(key, kwargs)

SpecI18n == InitLocales /\ [][NextI18n]_vars

(***************************************************************************)
(* print_check_results applied to any results dict.                        *)
(***************************************************************************)
InitResults ==
    /\ InitStore
    /\ InitCN
    /\ InitTemplates
    /\ InitI18n
    /\ InitCli
    /\ InitUi
    /\ InitFormat
    /\ InitSys
    /\ check \in [results : CheckInputs, ret : {{}}, printed : {{}}]

NextCheck == print_check_results

SpecCheck == InitResults /\ [][NextCheck]_vars

(***************************************************************************)
(* One run of the process with any arguments and tool availabilities.      *)
(***************************************************************************)
NextCli ==
    \/ \E entry \in EntryPoints, argv \in BOOLEAN, check_only \in BOOLEAN,
          skip_check \in BOOLEAN, cmd \in Subcommands, avail \in Availabilities :
            start(entry, argv, check_only, skip_check, cmd, avail)
    \/ cli_group
    \/ cli_command
    \/ main_ui_mode
    \/ process_exit

SpecCli == Init /\ [][NextCli]_vars

(***************************************************************************)
(* Distribution detection for any /etc/os-release.                         *)
(***************************************************************************)
InitOsRelease ==
    /\ InitStore
    /\ InitCN
    /\ InitTemplates
    /\ InitI18n
    /\ InitCheck
    /\ InitCli
    /\ InitUi
    /\ InitFormat
    /\ distro \in {NewManager(f) : f \in OsReleaseFiles}
    /\ trust = {}
    /\ slast = NoInstall
    /\ verify = NoVerify
    /\ rlast = NoRemove

NextDistro ==
    \/ SystemCertManagerInit
    \/ classify

SpecDistro == InitOsRelease /\ [][NextDistro]_vars

(***************************************************************************)
(* One installation on a Linux host of any family.                         *)
(***************************************************************************)
InstallHosts ==
    {NoOsRelease} \cup
    {{[ID |-> {Word(i)}, ID_LIKE |-> NoValue]} :
        i \in {"ubuntu", "fedora", "arch", "suse", "gentoo"}}

InitHost ==
    /\ InitStore
    /\ InitCN
    /\ InitTemplates
    /\ InitI18n
    /\ InitCheck
    /\ InitCli
    /\ InitUi
    /\ InitFormat
    /\ distro \in {NewManager(f) : f \in InstallHosts}
    /\ trust = {}
    /\ slast = NoInstall
    /\ verify = NoVerify
    /\ rlast = NoRemove

NextInstall ==
    \/ SystemCertManagerInit
    \/ \E password \in Passwords :
       \E typed \in IF password = NoPassword THEN Typed ELSE {""},
          env \in {<<>>} \cup UNION {[1 .. n -> MethodOutcomes] : n \in {1, 2, 4}} :
            install_linux(password, typed, env)

SpecInstall == InitHost /\ [][NextInstall]_vars

(***************************************************************************)
(* One verification of an installed certificate.                           *)
(***************************************************************************)
\* what openssl may answer for a certificate file
OpensslRuns ==
    {OpensslRun(FALSE, <<>>),
     OpensslRun(TRUE, <<"F", "p", "\n">>),
     OpensslRun(TRUE, <<"F", "p", "=", "\n">>),
     OpensslRun(TRUE, <<"F", "p", "=", "A", "B", ":", "C", "D", "\n">>),
     OpensslRun(TRUE, <<"F", "p", "=", "a", "b", ":", "c", "d", "\n">>),
     OpensslRun(TRUE, <<"F", "p", "=", "A", "B", ":", "C", "C", "\n">>)}

InitVerify ==
    /\ InitStore
    /\ InitCN
    /\ InitTemplates
    /\ InitI18n
    /\ InitCheck
    /\ InitCli
    /\ InitUi
    /\ InitFormat
    /\ distro = NewManager(NoOsRelease)
    /\ trust = {}
    /\ slast = NoInstall
    /\ rlast = NoRemove
    /\ verify \in {[NoVerify EXCEPT !.exists = e, !.source = s, !.installed = i,
                                      !.subject = r] :
                       e \in BOOLEAN, s \in OpensslRuns, i \in OpensslRuns,
                       r \in BOOLEAN}

NextVerify == verify_installation

SpecVerify == InitVerify /\ [][NextVerify]_vars

(***************************************************************************)
(* One removal on a Linux host of any family, whatever the trust store     *)
(* holds.                                                                  *)
(***************************************************************************)
TrustDirs ==
    {DebianMethod.cert_dir, FedoraMethod.cert_dir, ArchMethod.cert_dir,
     SuseMethod.cert_dir}

InitRemove ==
    /\ InitStore
    /\ InitCN
    /\ InitTemplates
    /\ InitI18n
    /\ InitCheck
    /\ InitCli
    /\ InitUi
    /\ InitFormat
    /\ distro \in {NewManager(f) : f \in InstallHosts}
    /\ trust \in SUBSET TrustDirs
    /\ slast = NoInstall
    /\ verify = NoVerify
    /\ rlast = NoRemove

NextRemove ==
    \/ SystemCertManagerInit
    \/ \E password \in Passwords :
       \E typed \in IF password = NoPassword THEN Typed ELSE {""},
          env \in {<<>>} \cup UNION {[1 .. n -> RemoveOutcomes] : n \in {1, 2, 4}} :
            remove_linux(password, typed, env)

SpecRemove == InitRemove /\ [][NextRemove]_vars

(***************************************************************************)
(* One session of the interactive UI.                                      *)
(***************************************************************************)
NextUi ==
    \/ \E choice \in {"cancel", "0", "1", "2", "3", "4", "5", "6", "7"}, have \in BOOLEAN :
          run(choice, have)
    \/ \E choice \in {"cancel", "0", "1", "2", "3", "4"}, have \in BOOLEAN :
          manage_templates(choice, have)
    \/ \E answer \in AllAnswers : ask(answer)
    \/ \E outcome \in {"ok", "fail"} : invoke(outcome)
    \/ wait_for_continue

SpecUi == Init /\ [][NextUi]_vars

(***************************************************************************)
(* One path formatted once and again, for any path and base directory.     *)
(***************************************************************************)
\* a path: where it starts, whether and how it names the base directory,
\* and what follows
FormatPaths ==
    {a \o b \o c :
        a \in {<<>>, <<"/", "w", "/">>, <<"/", "v", "/">>, <<"ca", "/">>},
        b \in {<<>>, <<"output", "/">>, <<"output", "/", "output", "/">>,
               <<"my", "output", "_dir", "/">>, <<"output", "\\">>},
        c \in {<<"k">>, <<"ca", "/", "k">>}}
    \cup {<<"output">>, <<"/", "w", "/", "output">>, <<>>}

FormatBases == {<<"output">>, <<"/", "w", "/", "output">>, <<>>}

InitPaths ==
    /\ InitStore
    /\ InitCN
    /\ InitTemplates
    /\ InitI18n
    /\ InitCheck
    /\ InitCli
    /\ InitUi
    /\ InitSys
    /\ fmt \in {[NoFormat EXCEPT !.path = p, !.base_dir = b] :
                    p \in FormatPaths, b \in FormatBases}

NextFormat ==
    \/ format_once
    \/ format_twice

SpecFormat == InitPaths /\ [][NextFormat]_vars

(***************************************************************************)
(* Properties of the store (specification Spec).                           *)
(***************************************************************************)
BothCaFiles(c) == Exists(c.key) /\ Exists(c.cert)
EmptyDirLeft(dir, hasEntries) == dir /\ ~hasEntries

\* C1: a completed create_root_ca(X) started with neither file of X present
\* ends with both files when every step succeeded, and with neither file and
\* no empty ca/X/ when a step failed or was interrupted; it never leaves
\* exactly one of the two files.
C1_CreateAllOrNothing ==
    \A X \in CANames :
        (/\ last.op = "create_root_ca"
         /\ last.ca = X
         /\ ~Exists(last.pre.key)
         /\ ~Exists(last.pre.cert)
         /\ last.ret # "killed")
        => /\ last.ret \in {"ok", "raise"}
           /\ last.ret = "ok" <=> last.step = ""
           /\ last.ret = "ok" => BothCaFiles(ca[X])
           /\ last.ret = "raise" =>
                 /\ ~Exists(ca[X].key)
                 /\ ~Exists(ca[X].cert)
                 /\ ~EmptyDirLeft(ca[X].dir, CaDirHasEntries(ca[X]))
           /\ Exists(ca[X].key) <=> Exists(ca[X].cert)

\* a creation that failed at the permission step, after both files were written
C1_Witness ==
    /\ last.op = "create_root_ca"
    /\ last.ret = "raise"
    /\ last.step = "chmod"
    /\ ~Exists(last.pre.key)
    /\ ~Exists(last.pre.cert)
    /\ ~ca[last.ca].dir

\* C2: create_root_ca(X) on a complete CA X raises FileExistsError, runs no
\* external command and leaves X's key and certificate files as they were.
C2_DuplicateRejected ==
    \A X \in CANames :
        (/\ last.op = "create_root_ca"
         /\ last.ca = X
         /\ Exists(last.pre.key)
         /\ Exists(last.pre.cert))
        => /\ last.ret = "raise"
           /\ last.raised = "FileExistsError"
           /\ last.cmds = <<>>
           /\ ca[X].key = last.pre.key
           /\ ca[X].cert = last.pre.cert

C2_Witness ==
    /\ last.op = "create_root_ca"
    /\ last.raised = "FileExistsError"
    /\ BothCaFiles(last.pre)
    /\ BothCaFiles(ca[last.ca])

\* C3: create_root_ca(X) started with exactly one of X's two files present
\* does not raise FileExistsError and, when no step fails, succeeds and
\* leaves both files.
C3_CreateFromPartial ==
    \A X \in CANames :
        (/\ last.op = "create_root_ca"
         /\ last.ca = X
         /\ Exists(last.pre.key) # Exists(last.pre.cert))
        => /\ last.raised # "FileExistsError"
           /\ last.step = "" => last.ret = "ok" /\ BothCaFiles(ca[X])

\* C4: X is in list_cas iff get_ca(X) is present iff both files of X exist; N
\* is in get_certs_by_ca(C) iff (C, N) is in list_certificates iff both files
\* of the certificate exist.
C4_ListGetCompleteness ==
    /\ \A X \in CANames :
          /\ (X \in list_cas) <=> (get_ca(X) # {})
          /\ (get_ca(X) # {}) <=> BothCaFiles(ca[X])
    /\ \A C \in CANames, N \in CertNames :
          /\ (N \in get_certs_by_ca(C)) <=> (<<C, N>> \in list_certificates)
          /\ (<<C, N>> \in list_certificates)
                <=> (certs[C].sub[N].key /\ certs[C].sub[N].cert)

\* a complete CA beside a directory that holds the key file only, and a
\* certificate directory that holds one of its two files
C4_Witness ==
    /\ \E X \in CANames : BothCaFiles(ca[X]) /\ X \in list_cas
    /\ \/ \E Y \in CANames : Exists(ca[Y].key) /\ ~Exists(ca[Y].cert) /\ Y \notin list_cas
       \/ \E C \in CANames, N \in CertNames :
             certs[C].sub[N].key /\ ~certs[C].sub[N].cert /\ N \notin get_certs_by_ca(C)

\* C5: a delete_ca(X) that returns true leaves neither ca/X/ nor certs/X/, so
\* X is not gettable and has no certificate listed; every other CA and its
\* certificates are as before.
C5_CascadingDelete ==
    [][\A X \in CANames :
          (last'.op = "delete_ca" /\ last'.ca = X /\ last'.ret = "true" /\ ops' # ops)
          => /\ ~ca'[X].dir
             /\ ~certs'[X].dir
             /\ get_ca(X)' = {}
             /\ get_certs_by_ca(X)' = {}
             /\ \A e \in list_certificates' : e[1] # X
             /\ \A Y \in CANames \ {X} : ca'[Y] = ca[Y] /\ certs'[Y] = certs[Y]]_vars

\* a CA with two issued certificates was deleted
C5_Witness ==
    /\ last.op = "delete_ca"
    /\ last.ret = "true"
    /\ BothCaFiles(last.pre)
    /\ last.pre.n = 2
    /\ ~certs[last.ca].dir

\* C6: delete_ca(X) on a CA that get_ca does not find returns false and
\* removes nothing.
C6_DeleteAbsentCa ==
    \A X \in CANames :
        (last.op = "delete_ca" /\ last.ca = X /\ ~BothCaFiles(last.pre))
        => /\ last.ret = "false"
           /\ ca[X] = [dir |-> last.pre.dir, key |-> last.pre.key, cert |-> last.pre.cert]

\* C7: a completed sign_certificate leaves key.pem and cert.pem and no csr.pem
\* on success, and none of the three files, no empty certificate directory
\* and no empty certs/{ca_name}/ on a failure at any step.
C7_SignAllOrNothing ==
    \A C \in CANames, N \in CertNames :
        (/\ last.op = "sign_certificate"
         /\ last.ca = C
         /\ last.cert = N
         /\ last.ret # "killed")
        => /\ last.ret = "ok" =>
                 certs[C].sub[N].key /\ certs[C].sub[N].cert /\ ~certs[C].sub[N].csr
           /\ last.ret = "raise" =>
                 /\ ~CertDirHasEntries(certs[C].sub[N])
                 /\ ~EmptyDirLeft(certs[C].sub[N].dir, CertDirHasEntries(certs[C].sub[N]))
                 /\ ~EmptyDirLeft(certs[C].dir, CertsDirHasEntries(certs[C]))

\* C8: when a step of create_root_ca or sign_certificate fails, the caller
\* receives the error that step raised.
C8_ReraisesTrigger ==
    (/\ last.op \in {"create_root_ca", "sign_certificate"}
     /\ last.ret = "raise"
     /\ last.step # "")
    => last.raised = last.err

(***************************************************************************)
(* Property of the common-name derivation (specification SpecCN).          *)
(***************************************************************************)
\* C9: a non-empty common_name is used as given; otherwise the first DNS
\* name, else the first IP address, else cert_name.
C9_CommonNamePrecedence ==
    cnOut # <<>> =>
        /\ Len(cnOut) = 1
        /\ cnIn.common_name # "" => cnOut[1] = cnIn.common_name
        /\ (cnIn.common_name = "" /\ Len(cnIn.dns_names) > 0)
              => cnOut[1] = Head(cnIn.dns_names)
        /\ (cnIn.common_name = "" /\ Len(cnIn.dns_names) = 0 /\ Len(cnIn.ip_addresses) > 0)
              => cnOut[1] = Head(cnIn.ip_addresses)
        /\ (cnIn.common_name = "" /\ Len(cnIn.dns_names) = 0 /\ Len(cnIn.ip_addresses) = 0)
              => cnOut[1] = cnIn.cert_name

\* derived with an empty common name, two DNS names and an IP address
C9_Witness ==
    /\ cnOut = <<"d2">>
    /\ cnIn.common_name = ""
    /\ cnIn.dns_names = <<"d2", "d1">>
    /\ cnIn.ip_addresses # <<>>

(***************************************************************************)
(* Property of the template store (specification SpecTemplates).           *)
(***************************************************************************)
\* C10: load_template(name) for a name with no stored template returns
\* exactly the six default values, does not fail and creates no file.
C10_TemplateFallback ==
    \A n \in TemplateNames :
        (/\ tlast.op = "load_template"
         /\ tlast.name = {n}
         /\ TemplatePath(n) \notin tlast.pre)
        => /\ tlast.ret = "ok"
           /\ tlast.doc = {[organization |-> "Development", country |-> "CN",
                            state |-> "Beijing", city |-> "Beijing",
                            default_validity_days |-> 365,
                            default_key_size |-> 2048]}
           /\ StoredFiles = tlast.pre

\* a name without a template is loaded while another template is stored
C10_Witness ==
    /\ tlast.op = "load_template"
    /\ tlast.name = {"web"}
    /\ tlast.pre = {TemplatePath("default")}

\* the map from template name to stored bundle that the files of templates/
\* represent
TemplateMap == [n \in TemplateNames |-> templates[TemplatePath(n)]]

\* C11: load_template called with no name uses the template named `default`:
\* it returns the bundle stored under that name when there is one, and the
\* hard-coded defaults only when there is none.
C11_ImplicitDefault ==
    (tlast.op = "load_template" /\ tlast.name = {})
    => tlast.doc = IF Exists(TemplateMap["default"])
                   THEN TemplateMap["default"]
                   ELSE {HardCodedDefaults}

\* C12: the template store refines a map from name to bundle: create
\* overwrites the bundle of its name and no other, load of a stored name
\* returns the bundle last written, delete returns true iff the name was
\* stored and removes only that name, and list returns exactly the stored
\* names.
C12_TemplateMapRefinement ==
    [][\A n \in TemplateNames :
          /\ (tlast'.op = "create_template" /\ tlast'.name = {n})
             => TemplateMap' = [TemplateMap EXCEPT ![n] = tlast'.doc]
          /\ (tlast'.op = "load_template" /\ tlast'.name = {n})
             => /\ Exists(TemplateMap[n]) => tlast'.doc = TemplateMap[n]
                /\ TemplateMap' = TemplateMap
          /\ (tlast'.op = "delete_template" /\ tlast'.name = {n})
             => /\ tlast'.ret = (IF Exists(TemplateMap[n]) THEN "true" ELSE "false")
                /\ TemplateMap' = [TemplateMap EXCEPT ![n] = Absent]
          /\ tlast'.op = "list_templates"
             => /\ tlast'.names = {m \in TemplateNames : Exists(TemplateMap[m])}
                /\ TemplateMap' = TemplateMap]_vars

\* the codes of LangArgs that name a supported language once lower-cased and
\* cut at the first hyphen, with that language
C13_Accepted ==
    {<<(<<"e", "n">>), "en">>, <<(<<"E", "N">>), "en">>,
     <<(<<"z", "h", "-", "C", "N">>), "zh">>, <<(<<"Z", "H">>), "zh">>,
     <<(<<"f", "r", "-", "F", "R">>), "fr">>, <<(<<"r", "u">>), "ru">>,
     <<(<<"j", "a">>), "ja">>, <<(<<"k", "o">>), "ko">>}

C13_Code(name) ==
    CASE name = "en" -> <<"e", "n">>
      [] name = "zh" -> <<"z", "h">>
      [] name = "fr" -> <<"f", "r">>
      [] name = "ru" -> <<"r", "u">>
      [] name = "ja" -> <<"j", "a">>
      [] name = "ko" -> <<"k", "o">>

\* C13: set_language lower-cases its argument and keeps the part before the
\* first hyphen; an unsupported result returns false and leaves the active
\* language and every loaded catalog unchanged, a supported one returns true
\* and becomes the active language.  The active language is always one of the
\* six supported codes and the English catalog is always loaded.
C13_SetLanguage ==
    /\ [](/\ i18n.current_language \in
                {C13_Code(n) : n \in {"en", "zh", "fr", "ru", "ja", "ko"}}
          /\ i18n.translations[<<"e", "n">>] # NotLoaded)
    /\ [][ilast'.op = "set_language"
          => IF \E p \in C13_Accepted : p[1] = ilast'.lang
             THEN /\ ilast'.ret = "true"
                  /\ \E p \in C13_Accepted :
                        /\ p[1] = ilast'.lang
                        /\ i18n'.current_language = C13_Code(p[2])
             ELSE /\ ilast'.ret = "false"
                  /\ i18n' = i18n]_vars

\* an unsupported code is refused while Chinese is the active language
C13_Witness ==
    /\ ilast.op = "set_language"
    /\ ilast.lang = <<"z", "h", "_", "C", "N">>
    /\ ilast.ret = "false"
    /\ i18n.current_language = <<"z", "h">>
    /\ i18n.translations[<<"z", "h">>] # NotLoaded

\* the catalog holds a non-empty string for the key
C14_NonEmpty(catalog, key) ==
    /\ catalog # NotLoaded
    /\ \E c \in catalog :
        c.mapping /\ c.entries[key] # {} /\ \A s \in c.entries[key] : s.text # ""

C14_Entry(catalog, key) ==
    CHOOSE s \in (CHOOSE c \in catalog : TRUE).entries[key] : TRUE

\* C14: t returns the first non-empty entry for the key in the active
\* language's catalog, else in the English catalog, else the key itself;
\* supplied arguments are interpolated into the chosen string, and when the
\* interpolation fails the chosen string is returned as it stands; t never
\* raises, whatever the key, the content of the catalogs and the arguments.
C14_FallbackChain ==
    ilast.op = "t"
    => LET key == CHOOSE k \in ilast.key : TRUE
           active == i18n.translations[i18n.current_language]
           english == i18n.translations[<<"e", "n">>]
           chosen == IF C14_NonEmpty(active, key) THEN C14_Entry(active, key)
                     ELSE IF C14_NonEmpty(english, key) THEN C14_Entry(english, key)
                     ELSE key
           interpolates == /\ ilast.kwargs # <<>>
                           /\ chosen.valid
                           /\ chosen.fields \subseteq DOMAIN ilast.kwargs
       IN  /\ ilast.ret = "ok"
           /\ ilast.out =
                {[str |-> chosen,
                  subst |-> IF interpolates
                            THEN [n \in chosen.fields |-> ilast.kwargs[n]]
                            ELSE <<>>]}

C15_MarkedRequired(results, k) ==
    results[k] # {} /\ \A v \in results[k] : v.required = {TRUE}

C15_Available(results, k) == \A v \in results[k] : v.available

\* the results with the availability of the tools of S inverted
C15_Flip(results, S) ==
    [k \in Tools |->
        IF k \in S THEN {[v EXCEPT !.available = ~v.available] : v \in results[k]}
        ELSE results[k]]

\* C15: print_check_results returns true iff every result marked required is
\* available, and inverting the availability of any results not marked
\* required does not change what it returns.
C15_OverallResult ==
    check.ret # {}
    => /\ check.ret = {\A k \in Tools :
                          C15_MarkedRequired(check.results, k)
                          => C15_Available(check.results, k)}
       /\ \A S \in SUBSET {k \in Tools : ~C15_MarkedRequired(check.results, k)} :
            AllRequiredAvailable(C15_Flip(check.results, S)) \in check.ret

\* the check passes although an optional tool and a tool without the
\* `required` key are unavailable
C15_Witness ==
    /\ check.ret = {TRUE}
    /\ check.results["openssl"] = {ResultOf({TRUE}, TRUE)}
    /\ check.results["sudo"] = {ResultOf({FALSE}, FALSE)}
    /\ check.results["update-ca-certificates"] = {ResultOf({}, FALSE)}

\* C16: a subcommand invoked without --skip-check and without --check-only
\* runs the system check first, and when the check fails the CLI exits with
\* code 1 with no manager constructed and no operation run.
C16_CheckGatesManagers ==
    (/\ cli.argv
     /\ ~cli.skip_check
     /\ ~cli.check_only
     /\ cli.pc \in {"command", "exiting", "done"})
    => /\ Head(cli.events) = "check"
       /\ ~cli.avail["openssl"]
          => /\ cli.raised = {1}
             /\ cli.events = <<"check">>
             /\ ~cli.managers

\* list-cas with openssl missing: the run has ended after the check alone
C16_Witness ==
    /\ cli.pc = "done"
    /\ cli.argv
    /\ cli.cmd = "list-cas"
    /\ ~cli.skip_check
    /\ ~cli.check_only
    /\ ~cli.avail["openssl"]
    /\ cli.raised = {1}

\* C17: started through main.py with arguments, the process ends with the
\* exit code the dispatcher chose: 1 after a failed startup check and after
\* a failed --check-only run.
C17_ExitCodeThroughMain ==
    (cli.pc = "done" /\ cli.entry = "main.py" /\ cli.argv)
    => /\ cli.exit = cli.raised
       /\ (~cli.skip_check /\ ~cli.avail["openssl"]) => cli.exit = {1}

C18_Id(file) == LowerStr(Unquote(GetOrEmpty((CHOOSE f \in file : TRUE).ID)))

C18_IdLike(file) == LowerStr(Unquote(GetOrEmpty((CHOOSE f \in file : TRUE).ID_LIKE)))

\* the family of a file, "" when it has none
C18_Family(file) ==
    IF C18_Id(file) \in {<<"ubuntu">>, <<"debian">>} \/ Contains(C18_IdLike(file), "debian")
    THEN "debian"
    ELSE IF \/ C18_Id(file) \in {<<"fedora">>, <<"rhel">>, <<"centos">>, <<"rocky">>,
                                 <<"almalinux">>}
            \/ Contains(C18_IdLike(file), "fedora")
            \/ Contains(C18_IdLike(file), "rhel")
    THEN "fedora"
    ELSE IF C18_Id(file) \in {<<"arch">>, <<"manjaro">>} \/ Contains(C18_IdLike(file), "arch")
    THEN "arch"
    ELSE IF \/ C18_Id(file) \in {<<"open", "suse">>, <<"sles">>, <<"suse">>}
            \/ Contains(C18_IdLike(file), "suse")
    THEN "suse"
    ELSE ""

C18_FourWay ==
    <<"/usr/local/share/ca-certificates", "/etc/pki/ca-trust/source/anchors",
      "/etc/ca-certificates/trust-source/anchors", "/etc/pki/trust/anchors">>

C18_Dirs(methods) == [i \in 1 .. Len(methods) |-> methods[i].cert_dir]

\* what the classification gives when no family matches: `other` is the ID
\* it falls back to
C18_Classified(other) ==
    distro.pc = "classified"
    => IF distro.os_release = NoOsRelease
       THEN /\ distro.distro_id = NoDistroId
            /\ C18_Dirs(distro.install_methods) = C18_FourWay
            /\ C18_Dirs(distro.remove_methods) = C18_FourWay
       ELSE IF C18_Family(distro.os_release) # ""
       THEN distro.distro_id = {<<C18_Family(distro.os_release)>>}
       ELSE distro.distro_id = IF other = <<>> THEN {} ELSE {other}

\* C18, as the code has it: ID and ID_LIKE are compared in lower case; the
\* family is debian, else fedora, else arch, else suse by the ID and ID_LIKE
\* rules, otherwise the lower-cased ID; without /etc/os-release there is no
\* family and install and remove use the four candidates in the order
\* debian, fedora, arch, suse.
C18_DistroClassification ==
    C18_Classified(IF distro.os_release = NoOsRelease THEN <<>>
                   ELSE C18_Id(distro.os_release))

\* C18, as stated: when no family matches, the result is the raw ID.
C18_RawId ==
    C18_Classified(IF distro.os_release = NoOsRelease THEN <<>>
                   ELSE Unquote(GetOrEmpty((CHOOSE f \in distro.os_release : TRUE).ID)))

\* without /etc/os-release the four fallback candidates are selected
C18_Witness ==
    /\ distro.pc = "classified"
    /\ distro.os_release = NoOsRelease
    /\ Len(distro.install_methods) = 4
    /\ Len(distro.remove_methods) = 4

\* the candidates before which no copy and refresh went through
C19_Tried ==
    {i \in 1 .. Len(slast.env) :
        \A j \in 1 .. i - 1 : slast.env[j] \notin {"ok", "verify_fail"}}

C19_CmdsOf(i) ==
    LET at == {n \in 1 .. Len(slast.cmds) : slast.cmds[n].method = i}
    IN  [c \in {"cp", "update", "rm"} |-> {n \in at : slast.cmds[n].cmd = c}]

C20_VerificationFailure ==
    (/\ slast.op = "install"
     /\ \E i \in C19_Tried : slast.env[i] = "verify_fail")
    => slast.ret = "false"

\* the hexadecimal digits openssl prints after the "=", in upper case; the
\* empty set when openssl fails, prints no "=" or prints no digit
C21_Fingerprint(openssl) ==
    IF openssl.ok /\ Contains(openssl.stdout, "=")
    THEN LET digits == UpperHex(SelectSeq(SplitRest(openssl.stdout, "="),
                                          LAMBDA x : x \notin {":", "\n"}))
         IN  IF digits = <<>> THEN {} ELSE {digits}
    ELSE {}

C21_Differ ==
    /\ C21_Fingerprint(verify.source) # {}
    /\ C21_Fingerprint(verify.installed) # {}
    /\ C21_Fingerprint(verify.source) # C21_Fingerprint(verify.installed)

\* C21: _verify_installation returns false exactly when the installed file
\* is missing or both fingerprints can be computed and differ; with the file
\* in place it returns true when the fingerprints match and when one of them
\* cannot be computed; the answer never depends on the readability check.
C21_VerifyInstallation ==
    verify.pc = "done"
    => /\ verify.ret = "false" <=> (~verify.exists \/ C21_Differ)
       /\ verify.ret = "true" <=> (verify.exists /\ ~C21_Differ)
       /\ verify.ret =
            VerifyInstallation(verify.exists, verify.source, verify.installed,
                               ~verify.subject).ret

\* the file is in place, the installed certificate's fingerprint is printed
\* in lower case and equals the source's, the readability check fails
C21_Witness ==
    /\ verify.pc = "done"
    /\ verify.exists
    /\ verify.source.stdout = <<"F", "p", "=", "A", "B", ":", "C", "D", "\n">>
    /\ verify.installed.stdout = <<"F", "p", "=", "a", "b", ":", "c", "d", "\n">>
    /\ ~verify.subject
    /\ verify.ret = "true"
    /\ verify.printed = <<"installing", "fingerprint_match", "cert_readable_error">>

\* the candidates whose file exists and whose rm and refresh both succeed
C22_Succeeding ==
    {i \in 1 .. Len(rlast.env) :
        rlast.methods[i].cert_dir \in rlast.before /\ rlast.env[i] = "ok"}

\* the candidates the walk reaches: no earlier candidate succeeded
C22_Reached == {i \in 1 .. Len(rlast.env) : \A j \in 1 .. i - 1 : j \notin C22_Succeeding}

C22_CmdsOf(i) ==
    LET at == {n \in 1 .. Len(rlast.cmds) : rlast.cmds[n].method = i}
    IN  [c \in {"rm", "update"} |-> {n \in at : rlast.cmds[n].cmd = c}]

C23_RemoveVerified ==
    rlast.op = "remove"
    => /\ rlast.ret = "true" => verify_removal(rlast.distro_id, trust)
       /\ (rlast.sudo # <<>> /\ ~verify_removal(rlast.distro_id, trust))
          => rlast.ret = "false"

\* a non-empty password was supplied, cached or typed at the prompt
C24_Credential(c) ==
    \/ c.password \notin {NoPassword, {""}}
    \/ c.password = NoPassword
       /\ (distro.sudo_password \notin {NoPassword, {""}} \/ c.typed \notin {"", "^C"})

\* C24: install and remove issue a privileged command only with a non-empty
\* password that was supplied, cached or typed; with no password, an empty
\* password or a cancelled or empty prompt they return false at once and
\* issue no privileged command.
C24_MissingCredential ==
    \A c \in {slast, rlast} :
        c.op # "none"
        => /\ c.cmds # <<>> => C24_Credential(c)
           /\ ~C24_Credential(c) => c.ret = "false" /\ c.cmds = <<>>

\* C29: when install returns false, no {ca_name}.crt that this call copied
\* is left in a candidate directory, whatever the individual sudo commands
\* did.
C29_NoResidue ==
    (slast.op = "install" /\ slast.ret = "false")
    => \A i \in 1 .. Len(slast.env) :
          (\E n \in 1 .. Len(slast.cmds) :
              slast.cmds[n] = Cmd(i, "cp") /\ slast.env[i] # "cp_fail")
          => slast.methods[i].cert_dir \notin trust

\* C30: when remove returns false, every {ca_name}.crt that was at a
\* candidate path before the call is still there.
C30_FailedRemoveKeeps ==
    (rlast.op = "remove" /\ rlast.ret = "false") => rlast.before \subseteq trust

\* C28: a listed (ca_name, cert_name) stays listed until a delete_certificate
\* of it or a delete_ca of its CA returns true; a failing sign_certificate
\* for it leaves the issued key.pem and cert.pem in place.
C28_IssuedPersist ==
    [][\A C \in CANames, N \in CertNames :
          (<<C, N>> \in list_certificates /\ <<C, N>> \notin list_certificates')
          => \/ last'.op = "delete_certificate" /\ last'.ca = C /\ last'.cert = N
                /\ last'.ret = "true"
             \/ last'.op = "delete_ca" /\ last'.ca = C /\ last'.ret = "true"]_vars

(***************************************************************************)
(* Properties of the interactive UI (specification SpecUi).                *)
(***************************************************************************)
\* C25: in every flow a cancelled text, selection or confirmation prompt
\* aborts the flow: the flow shows no further prompt, and no mutating
\* manager operation is invoked after the cancelled prompt.
C25_CancelAborts ==
    /\ ui.cancelled => ui.pc \notin {"prompt", "call"}
    /\ \A c \in ui.calls : c.op \in MutatingOps => ~c.after_cancel

\* C26: the top-level loop ends only when Exit is chosen or the top-level
\* selection is cancelled; a flow whose manager operation fails goes back
\* to a menu.
C26_MenuLoop ==
    ui.pc = "ended" => ui.end \in {"exit", "cancelled"}

(***************************************************************************)
(* Property of the path formatting (specification SpecFormat).             *)
(***************************************************************************)
\* the path starts with the base directory and a separator
C27_HasPrefix ==
    \/ StartsWith(fmt.path, fmt.base_dir \o <<"/">>)
    \/ StartsWith(fmt.path, fmt.base_dir \o <<"\\">>)

\* the path lies in or under the resolved base directory
C27_Under == StartsWith(Resolve(fmt.path), Resolve(fmt.base_dir))

\* C27: _format_path returns the remainder for a path that starts with the
\* base directory and a separator or lies under the resolved base directory,
\* returns every other path unchanged, and gives the same result when it is
\* applied to its own result.
C27_FormatPath ==
    fmt.pc # "new"
    => /\ C27_HasPrefix
          => fmt.once = SubSeq(fmt.path, Len(fmt.base_dir) + 2, Len(fmt.path))
       /\ (~C27_HasPrefix /\ C27_Under)
          => fmt.once = JoinPath(SubSeq(Resolve(fmt.path), Len(Resolve(fmt.base_dir)) + 1,
                                        Len(Resolve(fmt.path))))
       /\ (~C27_HasPrefix /\ ~C27_Under) => fmt.once = fmt.path
       /\ fmt.pc = "twice" => fmt.twice = fmt.once

====
